---------------------------- MODULE Spec2Model ----------------------------
(***************************************************************************)
(* Anarchy GPU passthrough: the ZeroMQ transport (ZMQWrapper), the client  *)
(* call proxy (VulkanICD) and the server (GPUServer).                      *)
(*                                                                         *)
(* Times are in milliseconds, sizes in bytes.  A payload is described by   *)
(* its byte length and by what it holds, never byte by byte: `plain' is    *)
(* the uncompressed content (length and compressibility class) and `codec' *)
(* is the format the bytes are actually in.  header.timestamp and the      *)
(* measured (de)compression times are wall-clock readings that no decision *)
(* of the code depends on; they are left out.                              *)
(***************************************************************************)
EXTENDS Integers, Sequences, FiniteSets, TLC

(***************************************************************************)
(* Bounds of the model.                                                    *)
(***************************************************************************)
MaxTime == 6000
TickMs == 3000
MaxAppCalls == 2
MaxPeerMessages == 1

(***************************************************************************)
(* Program constants.                                                      *)
(***************************************************************************)
MAX_MESSAGE_SIZE == 1024 * 1024 * 100
DEFAULT_CONNECTION_TIMEOUT == 5000
DEFAULT_HEARTBEAT_INTERVAL == 1000
DEFAULT_MAX_RECONNECT_ATTEMPTS == 5
CompressionThreshold == 1024
Lz4Cutover == 1024 * 1024
SpeedWindowMs == 1000
HeaderBytes == 32

Roles == {"SERVER", "CLIENT"}
ConnectionStates == {"DISCONNECTED", "CONNECTING", "CONNECTED", "RECONNECTING"}
CompressionTypes == {"NONE", "ZLIB", "LZ4"}

(***************************************************************************)
(* Payloads.  Raw(n, e) is n uncompressed bytes of compressibility e:      *)
(* "low" entropy shrinks under both codecs, "same" comes out of the codec  *)
(* exactly as long as it went in, "high" grows.                            *)
(***************************************************************************)
Raw(n, e) ==
    [codec |-> "NONE", bytes |-> n, plain |-> [len |-> n, entropy |-> e]]

Empty == Raw(0, "low")

(* The library codecs, by output length: deflate (zlib) and LZ4_compress_fast. *)
CodecSize(codec, plain) ==
    CASE plain.entropy = "same" -> plain.len
      [] plain.entropy = "high" ->
            IF codec = "LZ4" THEN plain.len + (plain.len \div 255) + 16
                             ELSE plain.len + (plain.len \div 1000) + 12
      [] OTHER ->
            IF codec = "LZ4" THEN (plain.len \div 50) + 20
                             ELSE (plain.len \div 100) + 20

(***************************************************************************)
(* compressData: LZ4 only when compression_type_ is LZ4, zlib otherwise    *)
(* (also for NONE).  Both return 0 when the output buffer is too small.    *)
(***************************************************************************)
compressData(compression_type, input, output_size) ==
    LET codec == IF compression_type = "LZ4" THEN "LZ4" ELSE "ZLIB"
        n == CodecSize(codec, input.plain)
    IN  IF n > output_size
          THEN [size |-> 0, out |-> input]
          ELSE [size |-> n,
                out |-> [codec |-> codec, bytes |-> n, plain |-> input.plain]]

(***************************************************************************)
(* decompressData: the codec is chosen by the RECEIVER's compression_type_,*)
(* not by the header.  inflate returns 0 on any failure; a failing         *)
(* LZ4_decompress_safe returns a negative int, which the size_t return     *)
(* type turns into a value near SIZE_MAX; it is written -1 here and every  *)
(* unsigned test on it is made as the code's size_t arithmetic makes it.   *)
(***************************************************************************)
decompressData(compression_type, input, output_size) ==
    LET codec == IF compression_type = "LZ4" THEN "LZ4" ELSE "ZLIB"
        good == input.codec = codec /\ input.plain.len <= output_size
    IN  IF good
          THEN [size |-> input.plain.len,
                out |-> Raw(input.plain.len, input.plain.entropy)]
          ELSE [size |-> IF codec = "LZ4" THEN -1 ELSE 0, out |-> input]

selectCompressionType(compression_type, message_size) ==
    IF compression_type # "NONE"
      THEN compression_type
      ELSE IF message_size < Lz4Cutover THEN "ZLIB" ELSE "LZ4"


(***************************************************************************)
(* The state.                                                              *)
(*                                                                         *)
(* ZMQWrapper's members keep their names.  `constructed' tells whether the *)
(* constructor body has run; before it the members hold their default      *)
(* member initializers.  worker_thread_ is TRUE while the std::thread is   *)
(* joinable.                                                               *)
(*                                                                         *)
(* The ZeroMQ socket and the world around the endpoint:                    *)
(*   fsm       "send"/"recv": what a REQ or REP socket allows next (they   *)
(*             strictly alternate; the other operation raises EFSM)        *)
(*   rx_queue  messages that arrived from the peer and wait for recv       *)
(*   peer_up   whether the peer endpoint is reachable                      *)
(*   now       steady_clock                                                *)
(*   worker_hung   the worker blocked for good on callback_mutex_, which   *)
(*             it already holds                                            *)
(*   blocked   the application thread blocked for good, on that mutex or   *)
(*             joining that worker                                         *)
(*   aborted   the process ended by an uncaught exception or a null        *)
(*             dereference                                                 *)
(*                                                                         *)
(* Observations (history variables, read by properties only):              *)
(*   last_op   what the operation that has just finished did (cleared when *)
(*             the world moves on): its name, its argument, its            *)
(*             return value, the texts given to the error callback, the    *)
(*             number of handleError calls and of socket calls, the        *)
(*             messages put on the wire, received and given to the message *)
(*             callback, and one entry per sendMessage call it made        *)
(*   last_rx   when the worker last received a message                     *)
(*   app_calls, peer_sent   how many application calls and peer messages   *)
(*             there have been (bounded by MaxAppCalls, MaxPeerMessages)   *)
(***************************************************************************)
VARIABLES
    constructed, role_, socket_, worker_thread_, should_stop_, connected_,
    connection_state_, messages_received_, last_heartbeat_,
    message_callback_, error_callback_, compression_type_,
    adaptive_compression_, compression_stats_, network_speed_history_,
    fsm, rx_queue, peer_up, now, worker_hung, blocked, aborted,
    last_op, last_rx, app_calls, peer_sent

zmqVars ==
    << constructed, role_, socket_, worker_thread_, should_stop_, connected_,
       connection_state_, messages_received_, last_heartbeat_,
       message_callback_, error_callback_, compression_type_,
       adaptive_compression_, compression_stats_, network_speed_history_,
       fsm, rx_queue, peer_up, now, worker_hung, blocked, aborted,
       last_op, last_rx, app_calls, peer_sent >>

NoStats ==
    [messages_compressed |-> 0, messages_decompressed |-> 0,
     total_bytes_before |-> 0, total_bytes_after |-> 0,
     compression_failures |-> 0, decompression_failures |-> 0,
     average_compression_ratio |-> 0]

NoMessage ==
    [type |-> "NONE", size |-> 0, sequence |-> 0, compression |-> "NONE",
     payload |-> Empty]

(* The observation of an operation that has not done anything yet. *)
Op(name, arg) ==
    [name |-> name, arg |-> arg, ret |-> TRUE, errors |-> << >>,
     reports |-> 0, io |-> 0, tx |-> << >>, rx |-> << >>,
     delivered |-> << >>, calls |-> << >>]

(***************************************************************************)
(* The part of the state that sendMessage, the worker loop and the         *)
(* callbacks read and write, as one record, so that the calls a handler    *)
(* makes compose: `View' reads it from the variables, each operator below  *)
(* maps one record to the next, and `Commit' writes the result back.       *)
(* holding_cb: the running thread holds callback_mutex_.                   *)
(***************************************************************************)
View(name, arg) ==
    [socket_ |-> socket_, connected_ |-> connected_,
     messages_received_ |-> messages_received_,
     last_heartbeat_ |-> last_heartbeat_,
     message_callback_ |-> message_callback_,
     error_callback_ |-> error_callback_,
     compression_type_ |-> compression_type_,
     adaptive_compression_ |-> adaptive_compression_,
     compression_stats_ |-> compression_stats_,
     network_speed_history_ |-> network_speed_history_,
     fsm |-> fsm, rx_queue |-> rx_queue, now |-> now,
     hung |-> worker_hung, blocked |-> blocked, aborted |-> aborted,
     last_rx |-> last_rx,
     holding_cb |-> FALSE, op |-> Op(name, arg)]

Commit(s) ==
    /\ messages_received_' = s.messages_received_
    /\ last_heartbeat_' = s.last_heartbeat_
    /\ compression_stats_' = s.compression_stats_
    /\ network_speed_history_' = s.network_speed_history_
    /\ fsm' = s.fsm
    /\ rx_queue' = s.rx_queue
    /\ worker_hung' = s.hung
    /\ blocked' = s.blocked
    /\ aborted' = s.aborted
    /\ last_rx' = s.last_rx
    /\ last_op' = s.op

(***************************************************************************)
(* handleError: takes callback_mutex_ and calls error_callback_ when one   *)
(* is registered.  callback_mutex_ is a plain std::mutex: a thread that    *)
(* already holds it (the worker inside handleMessage) never gets it again, *)
(* and neither does any other thread afterwards.                           *)
(***************************************************************************)
(* handleError as it would be if it took no lock and told nobody. *)
handleError_unreported(s, error) == s

handleError(s, error) ==
    CASE s.holding_cb -> [s EXCEPT !.hung = TRUE]
      [] s.hung -> [s EXCEPT !.blocked = TRUE]
      [] OTHER -> [s EXCEPT !.op.reports = @ + 1,
                            !.op.errors = IF s.error_callback_
                                            THEN Append(@, error) ELSE @]

Return(s, value) == [s EXCEPT !.op.ret = value]


(***************************************************************************)
(* Network speed: cleanupOldSpeedHistory drops the samples older than the  *)
(* one second window, getCurrentNetworkSpeed cleans up and sums the rest.  *)
(***************************************************************************)
RECURSIVE SumBytes(_)
SumBytes(history) ==
    IF history = << >> THEN 0 ELSE Head(history).bytes + SumBytes(Tail(history))

cleanupOldSpeedHistory(s) ==
    [s EXCEPT !.network_speed_history_ =
                  SelectSeq(@, LAMBDA m : ~(m.at < s.now - SpeedWindowMs))]

totalOf(s) == [s |-> s, value |-> SumBytes(s.network_speed_history_)]

getCurrentNetworkSpeed(s) == totalOf(cleanupOldSpeedHistory(s))

updateNetworkSpeed(s, bytes_sent) ==
    [s EXCEPT !.network_speed_history_ =
                  Append(@, [at |-> s.now, bytes |-> bytes_sent])]

gated(speed, message_size) ==
    [s |-> speed.s,
     value |-> /\ message_size > CompressionThreshold
               /\ speed.value < message_size * 10]

(* shouldCompressMessage as it would be if the throughput were not looked  *)
(* at.                                                                     *)
shouldCompressMessage_sizeOnly(s, message_size) ==
    [s |-> s, value |-> message_size > CompressionThreshold]

shouldCompressMessage(s, message_size) ==
    IF ~s.adaptive_compression_
      THEN [s |-> s, value |-> message_size > CompressionThreshold]
      ELSE gated(getCurrentNetworkSpeed(s), message_size)

(***************************************************************************)
(* updateCompressionStats, called after a compression and, with the sizes  *)
(* swapped, after a decompression.  The running ratio is kept in           *)
(* thousandths (the code keeps a double).                                  *)
(***************************************************************************)
updateCompressionStats(s, before_size, after_size) ==
    LET st == s.compression_stats_
        msg_count == st.messages_compressed + 1
        total_ratio == st.average_compression_ratio * (msg_count - 1)
                       + (after_size * 1000) \div before_size
    IN  [s EXCEPT !.compression_stats_ =
             [st EXCEPT !.messages_compressed = @ + 1,
                        !.total_bytes_before = @ + before_size,
                        !.total_bytes_after = @ + after_size,
                        !.average_compression_ratio = total_ratio \div msg_count]]

(***************************************************************************)
(* The two socket_->send calls of sendMessage and what follows them.       *)
(* `outcome' is what the socket does when the REQ/REP alternation allows a *)
(* send: "ok", "again_header"/"again_payload" (send returns no value on    *)
(* the header or on the payload part) or "error" (zmq::error_t).  When it  *)
(* does not allow one, the first send raises EFSM.                         *)
(***************************************************************************)
SendOutcomes == {"ok", "again_header", "again_payload", "error"}

socketSend(s, msg, outcome) ==
    IF s.socket_ = "null"
      THEN [s EXCEPT !.aborted = TRUE]
      ELSE IF s.fsm # "send" \/ outcome = "error"
        THEN Return(handleError([s EXCEPT !.op.io = @ + 1],
                                "Error sending message: zmq error"), FALSE)
        ELSE CASE outcome = "again_header" ->
                    Return(handleError([s EXCEPT !.op.io = @ + 1],
                                       "Failed to send message header"), FALSE)
               [] outcome = "again_payload" ->
                    Return(handleError([s EXCEPT !.op.io = @ + 2],
                                       "Failed to send message payload"), FALSE)
               [] OTHER ->
                    Return(updateNetworkSpeed(
                               [s EXCEPT !.op.io = @ + 2,
                                         !.op.tx = Append(@, msg),
                                         !.fsm = "recv"],
                               HeaderBytes + msg.payload.bytes), TRUE)

(***************************************************************************)
(* sendMessage.  The checks come first; then the payload is compressed     *)
(* when shouldCompressMessage says so, and the compressed form is kept     *)
(* when it is strictly smaller; then the message goes to the socket.       *)
(* `should' is the result of shouldCompressMessage (which may have cleaned *)
(* the speed history), `c' the result of compressData.                     *)
(***************************************************************************)
(* transmit as it would be if a compressed form of the same length were    *)
(* kept as well.                                                           *)
transmit_notStrict(should, c, message, outcome) ==
    IF should.value /\ c.size > 0 /\ c.size <= message.payload.bytes
      THEN socketSend(
               updateCompressionStats(should.s, message.payload.bytes, c.size),
               [message EXCEPT
                  !.payload = c.out,
                  !.compression = selectCompressionType(
                      should.s.compression_type_, message.payload.bytes)],
               outcome)
      ELSE socketSend(should.s, message, outcome)

transmit(should, c, message, outcome) ==
    IF should.value /\ c.size > 0 /\ c.size < message.payload.bytes
      THEN socketSend(
               updateCompressionStats(should.s, message.payload.bytes, c.size),
               [message EXCEPT
                  !.payload = c.out,
                  !.compression = selectCompressionType(
                      should.s.compression_type_, message.payload.bytes)],
               outcome)
      ELSE socketSend(should.s, message, outcome)

compressAndSend(should, message, outcome) ==
    transmit(should,
             compressData(should.s.compression_type_, message.payload,
                          message.payload.bytes),
             message, outcome)

sendMessageBody(s, message, outcome) ==
    IF ~s.connected_
      THEN Return(handleError(s, "Cannot send message: not connected"), FALSE)
      ELSE IF message.size > MAX_MESSAGE_SIZE
        THEN Return(handleError(s, "Message size exceeds limit"), FALSE)
        ELSE compressAndSend(
                 shouldCompressMessage(s, message.payload.bytes),
                 message, outcome)

(***************************************************************************)
(* The observation of one sendMessage call that went from s to r: a call   *)
(* that hangs or ends the process returns nothing and leaves no entry.     *)
(***************************************************************************)
Observe(s, r, message) ==
    IF r.hung # s.hung \/ r.blocked \/ r.aborted
      THEN r
      ELSE [r EXCEPT !.op.calls = Append(@,
               [message |-> message,
                ret |-> r.op.ret,
                reports |-> r.op.reports - s.op.reports,
                errors |-> SubSeq(r.op.errors, Len(s.op.errors) + 1,
                                  Len(r.op.errors)),
                io |-> r.op.io - s.op.io,
                tx |-> SubSeq(r.op.tx, Len(s.op.tx) + 1, Len(r.op.tx))])]

sendMessage(s, message, outcome) ==
    Observe(s, sendMessageBody(s, message, outcome), message)

(***************************************************************************)
(* handleMessage: takes callback_mutex_ and calls message_callback_ when   *)
(* one is registered.  The callbacks of the repository:                    *)
(*   "record"          the tests' callback, which stores the message       *)
(*   "ack"             the NetworkSpeed test's server callback, which      *)
(*                     answers with a FRAME_ACK through sendMessage        *)
(*   "handleResponse"  VulkanICD::handleResponse, which decodes an ERROR   *)
(*                     message into a local ErrorInfo and changes nothing  *)
(***************************************************************************)
Ack(msg) ==
    [type |-> "FRAME_ACK", size |-> 0, sequence |-> msg.sequence,
     compression |-> "NONE", payload |-> Empty]

lockCallbacks(s) == [s EXCEPT !.holding_cb = TRUE]

unlockCallbacks(s) == IF s.hung THEN s ELSE [s EXCEPT !.holding_cb = FALSE]

message_callback(s, message, outcome) ==
    IF s.message_callback_ = "ack"
      THEN sendMessage([s EXCEPT !.op.delivered = Append(@, message)],
                       Ack(message), outcome)
      ELSE [s EXCEPT !.op.delivered = Append(@, message)]

handleMessage(s, message, outcome) ==
    IF s.message_callback_ = "none"
      THEN s
      ELSE unlockCallbacks(message_callback(lockCallbacks(s), message, outcome))

(***************************************************************************)
(* One iteration of the loop of workerThread: the heartbeat when one is    *)
(* due, then one receive and what follows it.  A REQ/REP socket that is    *)
(* not in its receiving state raises EFSM on recv (caught at the end of    *)
(* the loop body); with nothing to read, recv(dontwait) returns no value.  *)
(* Both parts of a message are delivered together, so the second recv      *)
(* finds the payload.  An exception that is not a zmq::error_t leaves the  *)
(* thread function and ends the process.                                   *)
(***************************************************************************)
Heartbeat(s) ==
    [type |-> "HEARTBEAT", size |-> 0, sequence |-> s.messages_received_,
     compression |-> "NONE", payload |-> Empty]

heartbeatSent(s, r) ==
    IF r.op.ret THEN [r EXCEPT !.last_heartbeat_ = s.now] ELSE r

heartbeatCheck(s, outcome) ==
    IF s.now - s.last_heartbeat_ >= DEFAULT_HEARTBEAT_INTERVAL
      THEN heartbeatSent(s, sendMessage(s, Heartbeat(s), outcome))
      ELSE s

countReceived(r) ==
    IF r.hung THEN r ELSE [r EXCEPT !.messages_received_ = @ + 1]

dispatch(s, msg, outcome) == countReceived(handleMessage(s, msg, outcome))

decompressionFailed(e) ==
    [e EXCEPT !.compression_stats_.decompression_failures = @ + 1]

(* What follows the two recv calls that took message m; d is the result of *)
(* decompressData on its payload, with a buffer of header.size bytes.      *)
received(s, m, d, outcome) ==
    IF m.compression = "NONE"
      THEN dispatch(s, m, outcome)
      ELSE IF d.size = 0
        THEN decompressionFailed(
                 handleError(s, "Failed to decompress message"))
        ELSE IF d.size < 0
          THEN [s EXCEPT !.aborted = TRUE]
          ELSE dispatch(
                   updateCompressionStats(s, d.out.bytes, m.payload.bytes),
                   [m EXCEPT !.payload = d.out, !.compression = "NONE"],
                   outcome)

takeMessage(s, m) ==
    [s EXCEPT !.rx_queue = Tail(@), !.fsm = "send", !.op.io = @ + 2,
              !.op.rx = Append(@, m), !.last_rx = s.now]

receive(s, outcome) ==
    CASE s.aborted -> s
      [] s.socket_ = "null" -> [s EXCEPT !.aborted = TRUE]
      [] s.fsm # "recv" ->
            handleError([s EXCEPT !.op.io = @ + 1],
                        "Error in worker thread: zmq error")
      [] s.rx_queue = << >> -> [s EXCEPT !.op.io = @ + 1]
      [] OTHER ->
            received(takeMessage(s, Head(s.rx_queue)), Head(s.rx_queue),
                     decompressData(s.compression_type_,
                                    Head(s.rx_queue).payload,
                                    Head(s.rx_queue).size),
                     outcome)

workerThread(s, hb_outcome, cb_outcome) ==
    receive(heartbeatCheck(s, hb_outcome), cb_outcome)

(***************************************************************************)
(* What the application sends and what the peer sends.                     *)
(***************************************************************************)
Msg(type, size, sequence, payload) ==
    [type |-> type, size |-> size, sequence |-> sequence,
     compression |-> "NONE", payload |-> payload]

AppMessages ==
    { Msg("FRAME_DATA", 5, 1, Raw(5, "low")),
      Msg("FRAME_DATA", 10240, 1, Raw(10240, "low")),
      Msg("FRAME_DATA", 0, 1, Raw(10240, "high")),
      Msg("FRAME_DATA", 2048, 1, Raw(2048, "same")),
      Msg("FRAME_DATA", Lz4Cutover, 1, Raw(Lz4Cutover, "low")),
      Msg("FRAME_DATA", MAX_MESSAGE_SIZE + 1, 1, Raw(MAX_MESSAGE_SIZE + 1, "low")) }

Compressed(codec, sequence, n) ==
    [type |-> "FRAME_DATA", size |-> n, sequence |-> sequence,
     compression |-> codec,
     payload |-> compressData(codec, Raw(n, "low"), n).out]

PeerMessages ==
    { Msg("FRAME_ACK", 0, 1, Empty),
      Msg("FRAME_DATA", 5, 2, Raw(5, "low")),
      Compressed("ZLIB", 1, 10240),
      Compressed("LZ4", 1, 10240) }

(***************************************************************************)
(* The state before the constructor body runs: the default member          *)
(* initializers of the class.                                              *)
(***************************************************************************)
ZmqInit ==
    /\ constructed = FALSE
    /\ role_ = "CLIENT"
    /\ socket_ = "null"
    /\ worker_thread_ = FALSE
    /\ should_stop_ = FALSE
    /\ connected_ = FALSE
    /\ connection_state_ = "DISCONNECTED"
    /\ messages_received_ = 0
    /\ last_heartbeat_ = 0
    /\ message_callback_ = "none"
    /\ error_callback_ = FALSE
    /\ compression_type_ = "ZLIB"
    /\ adaptive_compression_ = FALSE
    /\ compression_stats_ = NoStats
    /\ network_speed_history_ = << >>
    /\ fsm = "send"
    /\ rx_queue = << >>
    /\ peer_up = TRUE
    /\ now = 0
    /\ worker_hung = FALSE
    /\ blocked = FALSE
    /\ aborted = FALSE
    /\ last_op = Op("none", "none")
    /\ last_rx = 0
    /\ app_calls = 0
    /\ peer_sent = 0

(* The variables no operation on the record writes. *)
configVars ==
    << message_callback_, error_callback_, compression_type_,
       adaptive_compression_ >>

lifeVars ==
    << constructed, role_, socket_, worker_thread_, should_stop_, connected_,
       connection_state_ >>

(***************************************************************************)
(* ZMQWrapper::ZMQWrapper(endpoint, role).  `outcome': "ok", or the        *)
(* zmq::error_t comes from creating the socket ("no_socket") or from       *)
(* bind/connect ("no_bind").  No error callback can be registered yet.     *)
(***************************************************************************)
ConstructOutcomes == {"ok", "no_socket", "no_bind"}

Construct(role, outcome) ==
    /\ ~constructed
    /\ constructed' = TRUE
    /\ role_' = role
    /\ last_heartbeat_' = now
    /\ socket_' = CASE outcome = "ok" -> "open"
                    [] outcome = "no_bind" -> "unbound"
                    [] OTHER -> "null"
    /\ fsm' = IF role = "SERVER" THEN "recv" ELSE "send"
    /\ IF outcome = "ok"
         THEN /\ connection_state_' = "CONNECTED"
              /\ connected_' = TRUE
              /\ last_op' = Op("ZMQWrapper", role)
         ELSE /\ connection_state_' = "DISCONNECTED"
              /\ connected_' = FALSE
              /\ last_op' = handleError(View("ZMQWrapper", role),
                                "Failed to initialize socket: zmq error").op
    /\ last_rx' = now
    /\ UNCHANGED << worker_thread_, should_stop_, messages_received_,
                    configVars, compression_stats_, network_speed_history_,
                    rx_queue, peer_up, now, worker_hung, blocked, aborted,
                    app_calls, peer_sent >>

(* An application thread may call into the object. *)
AppMayCall ==
    /\ constructed
    /\ ~aborted
    /\ ~blocked
    /\ app_calls < MaxAppCalls

(***************************************************************************)
(* start(): nothing when the thread is joinable; otherwise clears          *)
(* should_stop_ and starts the worker.  No other member is written.        *)
(***************************************************************************)
start ==
    /\ AppMayCall
    /\ app_calls' = app_calls + 1
    /\ IF worker_thread_
         THEN /\ last_op' = Return(View("start", "none"), FALSE).op
              /\ UNCHANGED << should_stop_, worker_thread_ >>
         ELSE /\ last_op' = Op("start", "none")
              /\ should_stop_' = FALSE
              /\ worker_thread_' = TRUE
    /\ UNCHANGED << constructed, role_, socket_, connected_,
                    connection_state_, messages_received_, last_heartbeat_,
                    configVars, compression_stats_, network_speed_history_,
                    fsm, rx_queue, peer_up, now, worker_hung, blocked,
                    aborted, last_rx, peer_sent >>

(***************************************************************************)
(* stop(): sets should_stop_, joins the worker (for ever when the worker   *)
(* hangs), unbinds or disconnects and releases the socket, and sets        *)
(* DISCONNECTED.  unbind/disconnect raise when the endpoint was never      *)
(* bound or connected; `cleanup_ok' is whether they succeed otherwise.     *)
(* The destructor runs stop() as well, so that a stop() can follow the     *)
(* last call the application makes.                                        *)
(***************************************************************************)
(* The cleanup as it would be without the test of socket_. *)
releaseSocket_unchecked(s, cleanup_ok) ==
    IF cleanup_ok /\ s.socket_ # "null"
      THEN [s EXCEPT !.op.io = @ + 1]
      ELSE handleError([s EXCEPT !.op.io = @ + 1],
                       "Error during socket cleanup: zmq error")

(* The cleanup of stop(): one unbind or disconnect on a socket that is     *)
(* there, reported through handleError when it raises.                     *)
releaseSocket(s, cleanup_ok) ==
    IF s.socket_ = "null"
      THEN s
      ELSE IF cleanup_ok
        THEN [s EXCEPT !.op.io = @ + 1]
        ELSE handleError([s EXCEPT !.op.io = @ + 1],
                         "Error during socket cleanup: zmq error")

stop(cleanup_ok) ==
    /\ constructed
    /\ ~aborted
    /\ ~blocked
    /\ app_calls <= MaxAppCalls
    /\ socket_ = "unbound" => ~cleanup_ok
    /\ app_calls' = app_calls + 1
    /\ should_stop_' = TRUE
    /\ IF worker_thread_ /\ worker_hung
         THEN /\ blocked' = TRUE
              /\ last_op' = Op("stop", "none")
              /\ UNCHANGED << worker_thread_, socket_, connection_state_,
                              connected_ >>
         ELSE LET r == releaseSocket(View("stop", "none"), cleanup_ok)
              IN  /\ blocked' = r.blocked
                  /\ last_op' = r.op
                  /\ worker_thread_' = FALSE
                  /\ IF r.blocked
                       THEN UNCHANGED << socket_, connection_state_,
                                         connected_ >>
                       ELSE /\ socket_' = "null"
                            /\ connection_state_' = "DISCONNECTED"
                            /\ connected_' = FALSE
    /\ UNCHANGED << constructed, role_, messages_received_, last_heartbeat_,
                    configVars, compression_stats_, network_speed_history_,
                    fsm, rx_queue, peer_up, now, worker_hung, aborted,
                    last_rx, peer_sent >>

(***************************************************************************)
(* sendMessage(message), called by the application.  The outcome of the    *)
(* sends is only drawn where the call reaches the socket.                  *)
(***************************************************************************)
SendMessage(message, outcome) ==
    /\ AppMayCall
    /\ outcome # "ok" => /\ connected_
                         /\ message.size <= MAX_MESSAGE_SIZE
                         /\ fsm = "send"
    /\ app_calls' = app_calls + 1
    /\ Commit(sendMessage(View("sendMessage", message), message, outcome))
    /\ UNCHANGED << lifeVars, configVars, peer_up, now, peer_sent >>

(***************************************************************************)
(* The setters.  The two callback setters take callback_mutex_.            *)
(***************************************************************************)
setMessageCallback(callback) ==
    /\ AppMayCall
    /\ app_calls' = app_calls + 1
    /\ last_op' = Op("setMessageCallback", callback)
    /\ IF worker_hung
         THEN blocked' = TRUE /\ UNCHANGED message_callback_
         ELSE message_callback_' = callback /\ UNCHANGED blocked
    /\ UNCHANGED << lifeVars, messages_received_, last_heartbeat_,
                    error_callback_, compression_type_,
                    adaptive_compression_, compression_stats_,
                    network_speed_history_, fsm, rx_queue, peer_up, now,
                    worker_hung, aborted, last_rx, peer_sent >>

setErrorCallback ==
    /\ AppMayCall
    /\ app_calls' = app_calls + 1
    /\ last_op' = Op("setErrorCallback", "none")
    /\ IF worker_hung
         THEN blocked' = TRUE /\ UNCHANGED error_callback_
         ELSE error_callback_' = TRUE /\ UNCHANGED blocked
    /\ UNCHANGED << lifeVars, messages_received_, last_heartbeat_,
                    message_callback_, compression_type_,
                    adaptive_compression_, compression_stats_,
                    network_speed_history_, fsm, rx_queue, peer_up, now,
                    worker_hung, aborted, last_rx, peer_sent >>

setCompressionType(type) ==
    /\ AppMayCall
    /\ app_calls' = app_calls + 1
    /\ last_op' = Op("setCompressionType", type)
    /\ compression_type_' = type
    /\ UNCHANGED << lifeVars, messages_received_, last_heartbeat_,
                    message_callback_, error_callback_,
                    adaptive_compression_, compression_stats_,
                    network_speed_history_, fsm, rx_queue, peer_up, now,
                    worker_hung, blocked, aborted, last_rx, peer_sent >>

enableAdaptiveCompression(enable) ==
    /\ AppMayCall
    /\ app_calls' = app_calls + 1
    /\ last_op' = Op("enableAdaptiveCompression", enable)
    /\ adaptive_compression_' = enable
    /\ UNCHANGED << lifeVars, messages_received_, last_heartbeat_,
                    message_callback_, error_callback_, compression_type_,
                    compression_stats_, network_speed_history_, fsm,
                    rx_queue, peer_up, now, worker_hung, blocked, aborted,
                    last_rx, peer_sent >>

(***************************************************************************)
(* The worker thread runs one iteration of its loop.  stop() joins it      *)
(* before it returns, so a running worker never sees should_stop_ set      *)
(* between two operations of the application.  The outcome of a send is   *)
(* only drawn where a send can happen: a heartbeat that is due, a          *)
(* callback that sends.                                                    *)
(***************************************************************************)
WorkerStep(hb_outcome, cb_outcome) ==
    /\ constructed
    /\ ~aborted
    /\ worker_thread_
    /\ ~should_stop_
    /\ ~worker_hung
    /\ hb_outcome # "ok" => /\ now - last_heartbeat_
                                  >= DEFAULT_HEARTBEAT_INTERVAL
                            /\ connected_
                            /\ fsm = "send"
    /\ cb_outcome # "ok" => /\ message_callback_ = "ack"
                            /\ rx_queue # << >>
                            /\ fsm = "recv"
    /\ Commit(workerThread(View("workerThread", "none"), hb_outcome,
                           cb_outcome))
    /\ UNCHANGED << lifeVars, configVars, peer_up, now, app_calls,
                    peer_sent >>

(***************************************************************************)
(* The world: time passes, the peer sends a message (a REQ/REP peer only   *)
(* when this side is the one to receive), the peer becomes unreachable.    *)
(***************************************************************************)
Tick ==
    /\ constructed
    /\ ~aborted
    /\ now < MaxTime
    /\ now' = IF now + TickMs > MaxTime THEN MaxTime ELSE now + TickMs
    /\ last_op' = Op("none", "none")
    /\ UNCHANGED << lifeVars, messages_received_, last_heartbeat_,
                    configVars, compression_stats_, network_speed_history_,
                    fsm, rx_queue, peer_up, worker_hung, blocked, aborted,
                    last_rx, app_calls, peer_sent >>

PeerSend(m) ==
    /\ constructed
    /\ ~aborted
    /\ socket_ = "open"
    /\ peer_up
    /\ fsm = "recv"
    /\ rx_queue = << >>
    /\ peer_sent < MaxPeerMessages
    /\ peer_sent' = peer_sent + 1
    /\ rx_queue' = << m >>
    /\ last_op' = Op("none", "none")
    /\ UNCHANGED << lifeVars, messages_received_, last_heartbeat_,
                    configVars, compression_stats_, network_speed_history_,
                    fsm, peer_up, now, worker_hung, blocked, aborted,
                    last_rx, app_calls >>

PeerDown ==
    /\ constructed
    /\ ~aborted
    /\ peer_up
    /\ peer_up' = FALSE
    /\ last_op' = Op("none", "none")
    /\ UNCHANGED << lifeVars, messages_received_, last_heartbeat_,
                    configVars, compression_stats_, network_speed_history_,
                    fsm, rx_queue, now, worker_hung, blocked, aborted,
                    last_rx, app_calls, peer_sent >>

(***************************************************************************)
(* The client call proxy, VulkanICD.                                       *)
(*                                                                         *)
(* A handle is a 64-bit pointer value, kept as its two 32-bit halves.      *)
(* Every operation writes reinterpret_cast<uint64_t>(handle) into the      *)
(* 32-bit field header.sequence, which keeps the low half.                 *)
(***************************************************************************)
Threads == {1, 2}
ResponseTimeoutMs == 5000

Handle(hi, lo) == [hi |-> hi, lo |-> lo]

NoHandle == Handle(0, 0)

Handles == {Handle(0, 4096), Handle(1, 4096)}

Sequence32(handle) == handle.lo

IcdOperations ==
    {"vkCreateInstance", "vkDestroyInstance", "vkCreateDevice",
     "vkDestroyDevice"}

(* The operations that return nothing to their caller. *)
VoidOperations == {"vkDestroyInstance", "vkDestroyDevice"}

(* The message an operation builds: its type, the size of its parameter    *)
(* struct, and the handle (for vkCreateInstance the address of the output  *)
(* handle) as the sequence.                                                *)
IcdMessage(fn, handle) ==
    CASE fn = "vkCreateInstance" ->
            Msg("VK_CREATE_INSTANCE", 64, Sequence32(handle), Raw(64, "low"))
      [] fn = "vkDestroyInstance" ->
            Msg("VK_DESTROY_INSTANCE", 8, Sequence32(handle), Raw(8, "low"))
      [] fn = "vkCreateDevice" ->
            Msg("VK_CREATE_DEVICE", 80, Sequence32(handle), Raw(80, "low"))
      [] fn = "vkDestroyDevice" ->
            Msg("VK_DESTROY_DEVICE", 8, Sequence32(handle), Raw(8, "low"))

(***************************************************************************)
(* The state of the proxy.                                                 *)
(*   calls       per calling thread, the operation it is in: pc ("idle",   *)
(*               "waiting" inside waitForResponse, "done"), the operation  *)
(*               and its handle, the sequence it sent, when the wait       *)
(*               started, what sendCommand returned (result) and what the  *)
(*               caller got (returned; "void" for an operation that        *)
(*               returns nothing)                                          *)
(*   instances_  the instance registry (its keys)                          *)
(*   devices_    the device registry (its keys)                            *)
(* Observations: calls[t].sent (sendMessage accepted the request) and      *)
(* calls[t].answer (the first message that handleResponse was given, while *)
(* the call waited and before its deadline, whose sequence is the call's). *)
(* Each thread of Threads makes one call.                                  *)
(***************************************************************************)
VARIABLES calls, instances_, devices_

icdVars == << calls, instances_, devices_ >>

IdleCall ==
    [pc |-> "idle", fn |-> "none", handle |-> NoHandle, sequence |-> 0,
     start |-> 0, sent |-> FALSE, result |-> "none", returned |-> "none",
     answer |-> NoMessage]

IcdIdle ==
    /\ calls = [t \in Threads |-> IdleCall]
    /\ instances_ = {}
    /\ devices_ = {}

(* waitForResponse as it would be if the end of the wait meant success. *)
waitForResponse_success(sequence) == "VK_SUCCESS"

(* waitForResponse(sequence): sleeps until 5000 ms have passed, looks at   *)
(* nothing else, and returns VK_TIMEOUT.                                   *)
waitForResponse(sequence) == "VK_TIMEOUT"

(* An ERROR payload: a 32-bit code followed by the text. *)
ErrorPayload(code, text) ==
    [codec |-> "NONE", bytes |-> 4 + Len(text),
     plain |-> [len |-> 4 + Len(text), entropy |-> "low", code |-> code,
                message |-> text]]

(* VulkanICD::handleError decodes the payload into a local ErrorInfo; the  *)
(* local goes out of scope and the state of the calls stays as it is.      *)
decodeErrorInfo(message) ==
    [code |-> message.payload.plain.code,
     message |-> message.payload.plain.message]

icdHandleError(cs, message) ==
    LET error_info == decodeErrorInfo(message) IN cs

handleResponse(cs, message) ==
    IF message.type = "ERROR" THEN icdHandleError(cs, message) ELSE cs

(* What the operation does with the result of sendCommand, and what its    *)
(* caller gets: a create inserts its handle on VK_SUCCESS only, a destroy  *)
(* erases its handle whatever the result was.                              *)
Finish(call, result) ==
    [call EXCEPT !.pc = "done", !.result = result,
                 !.returned = IF call.fn \in VoidOperations
                                THEN "void" ELSE result]

(* Registered as it would be if a destroy inserted its handle where it     *)
(* has to erase it.                                                        *)
Registered_inserting(registry, call, result) ==
    CASE call.fn = "vkCreateInstance" /\ result = "VK_SUCCESS" ->
            registry \cup {call.handle}
      [] call.fn = "vkDestroyInstance" -> registry \cup {call.handle}
      [] OTHER -> registry

(* Registered as it would be if a create inserted whatever the result. *)
Registered_unconditional(registry, call, result) ==
    CASE call.fn = "vkCreateInstance" -> registry \cup {call.handle}
      [] call.fn = "vkDestroyInstance" -> registry \ {call.handle}
      [] OTHER -> registry

Registered(registry, call, result) ==
    CASE call.fn = "vkCreateInstance" /\ result = "VK_SUCCESS" ->
            registry \cup {call.handle}
      [] call.fn = "vkDestroyInstance" -> registry \ {call.handle}
      [] OTHER -> registry

RegisteredDevices(registry, call, result) ==
    CASE call.fn = "vkCreateDevice" /\ result = "VK_SUCCESS" ->
            registry \cup {call.handle}
      [] call.fn = "vkDestroyDevice" -> registry \ {call.handle}
      [] OTHER -> registry

(***************************************************************************)
(* Thread t enters operation fn on a handle: it builds the message and     *)
(* calls sendCommand, which returns VK_ERROR_INITIALIZATION_FAILED when    *)
(* sendMessage returns false and goes into waitForResponse otherwise.      *)
(***************************************************************************)
IcdCall(t, fn, handle, outcome) ==
    /\ constructed
    /\ ~aborted
    /\ ~blocked
    /\ calls[t].pc = "idle"
    /\ LET r == sendMessage(View(fn, handle), IcdMessage(fn, handle), outcome)
           call == [IdleCall EXCEPT !.fn = fn, !.handle = handle,
                                    !.sequence = IcdMessage(fn, handle).sequence,
                                    !.start = now, !.sent = r.op.ret]
       IN  /\ Commit(r)
           /\ IF r.op.ret
                THEN /\ calls' = [calls EXCEPT
                                      ![t] = [call EXCEPT !.pc = "waiting"]]
                     /\ UNCHANGED << instances_, devices_ >>
                ELSE /\ calls' = [calls EXCEPT ![t] =
                             Finish(call, "VK_ERROR_INITIALIZATION_FAILED")]
                     /\ instances_' = Registered(instances_, call,
                                          "VK_ERROR_INITIALIZATION_FAILED")
                     /\ devices_' = RegisteredDevices(devices_, call,
                                        "VK_ERROR_INITIALIZATION_FAILED")
    /\ UNCHANGED << lifeVars, configVars, peer_up, now, app_calls, peer_sent >>

(* The wait of thread t ends: the loop of waitForResponse finds that the   *)
(* timeout has passed.                                                     *)
IcdReturn(t) ==
    /\ ~aborted
    /\ calls[t].pc = "waiting"
    /\ now - calls[t].start >= ResponseTimeoutMs
    /\ calls' = [calls EXCEPT ![t] =
                     Finish(@, waitForResponse(calls[t].sequence))]
    /\ instances_' = Registered(instances_, calls[t],
                                waitForResponse(calls[t].sequence))
    /\ devices_' = RegisteredDevices(devices_, calls[t],
                                     waitForResponse(calls[t].sequence))
    /\ last_op' = Op("none", "none")
    /\ UNCHANGED << lifeVars, messages_received_, last_heartbeat_,
                    configVars, compression_stats_, network_speed_history_,
                    fsm, rx_queue, peer_up, now, worker_hung, blocked,
                    aborted, last_rx, app_calls, peer_sent >>

(***************************************************************************)
(* The transport's worker runs one iteration with handleResponse as the    *)
(* message callback.  The observation calls[t].answer is taken here.       *)
(***************************************************************************)
Answered(cs, delivered) ==
    [t \in Threads |->
        IF /\ delivered # << >>
           /\ cs[t].pc = "waiting"
           /\ cs[t].answer = NoMessage
           /\ now - cs[t].start < ResponseTimeoutMs
           /\ delivered[1].type # "HEARTBEAT"
           /\ delivered[1].sequence = cs[t].sequence
          THEN [cs[t] EXCEPT !.answer = delivered[1]]
          ELSE cs[t]]

Delivered(delivered) == IF delivered = << >> THEN NoMessage ELSE delivered[1]

IcdWorker(hb_outcome) ==
    /\ WorkerStep(hb_outcome, "ok")
    /\ calls' = Answered(handleResponse(calls, Delivered(last_op'.delivered)),
                         last_op'.delivered)
    /\ UNCHANGED << instances_, devices_ >>

(* What the server may answer: a result or an ERROR for a sequence, or the *)
(* heartbeat that the server's own worker sends.                           *)
Replies ==
    { Msg("VK_CREATE_INSTANCE", 4, 4096, Raw(4, "low")),
      [type |-> "ERROR", size |-> 8, sequence |-> 4096,
       compression |-> "NONE", payload |-> ErrorPayload(3, "lost")],
      Msg("HEARTBEAT", 0, 1, Empty) }

(***************************************************************************)
(* The server, GPUServer.  Its constructor builds the transport as SERVER  *)
(* and starts the transport's worker; it registers no callback.  start()   *)
(* and stop() write running_ and nothing else.                             *)
(***************************************************************************)
VARIABLE running_

(***************************************************************************)
(* The socket, call by call.  Two threads reach socket_: the application,  *)
(* in sendMessage, and the worker, in the sendMessage of its heartbeat and *)
(* in its recv.  Nothing is locked around these calls, so that the calls   *)
(* of one thread fall between the calls of the other.                      *)
(*   sending[t]  where thread t is: at the "top" of sendMessage (for the   *)
(*               worker, of its loop), before the send of the "payload"    *)
(*               of msg, or (the worker) before its "recv"                 *)
(*   wire        the parts handed to the socket, in the order of the calls *)
(***************************************************************************)
SocketThreads == {"app", "worker"}

VARIABLES sending, wire

sockVars == << sending, wire >>

NotSending == [pc |-> "top", msg |-> NoMessage]

SocketIdle ==
    /\ sending = [t \in SocketThreads |-> NotSending]
    /\ wire = << >>

Part(thread, part, msg) ==
    [from |-> thread, part |-> part, type |-> msg.type,
     sequence |-> msg.sequence]

(* Where a thread goes on after its sendMessage. *)
AfterSend(thread) ==
    [pc |-> IF thread = "worker" THEN "recv" ELSE "top", msg |-> NoMessage]

(* The message sendMessage hands to the socket, and the state after the    *)
(* compression that made it.                                               *)
prepare(should, c, message) ==
    IF should.value /\ c.size > 0 /\ c.size < message.payload.bytes
      THEN [s |-> updateCompressionStats(should.s, message.payload.bytes,
                                         c.size),
            msg |-> [message EXCEPT
                       !.payload = c.out,
                       !.compression = selectCompressionType(
                           should.s.compression_type_,
                           message.payload.bytes)]]
      ELSE [s |-> should.s, msg |-> message]

prepared(s, message) ==
    prepare(shouldCompressMessage(s, message.payload.bytes),
            compressData(s.compression_type_, message.payload,
                         message.payload.bytes),
            message)

(* The first send went through: the header is with the socket. *)
headerSent(p, thread) ==
    /\ Commit([p.s EXCEPT !.op.io = @ + 1])
    /\ wire' = Append(wire, Part(thread, "header", p.msg))
    /\ sending' = [sending EXCEPT ![thread] =
                       [pc |-> "payload", msg |-> p.msg]]

(* sendMessage up to and with socket_->send(header_msg, sndmore).  A call  *)
(* that fails a check, or whose send the socket refuses, ends here.        *)
SendHeader(thread, message) ==
    /\ sending[thread].pc = "top"
    /\ IF ~connected_ \/ message.size > MAX_MESSAGE_SIZE \/ fsm # "send"
         THEN /\ Commit(sendMessage(View("sendMessage", message), message,
                                    "ok"))
              /\ sending' = [sending EXCEPT ![thread] = AfterSend(thread)]
              /\ UNCHANGED wire
         ELSE headerSent(prepared(View("sendMessage", message), message),
                         thread)
    /\ UNCHANGED << lifeVars, configVars, peer_up, now, peer_sent >>

(* The state after socket_->send(payload_msg, none) and what follows it. *)
payloadSent(s, msg, thread) ==
    IF s.fsm # "send"
      THEN Return(handleError([s EXCEPT !.op.io = @ + 1],
                              "Error sending message: zmq error"), FALSE)
      ELSE Return(updateNetworkSpeed(
                      [s EXCEPT !.op.io = @ + 1,
                                !.op.tx = Append(@, msg),
                                !.fsm = "recv",
                                !.last_heartbeat_ =
                                    IF thread = "worker" THEN s.now ELSE @],
                      HeaderBytes + msg.payload.bytes), TRUE)

(* The rest of sendMessage: socket_->send(payload_msg, none), which ends   *)
(* the message the socket is collecting, and updateNetworkSpeed.           *)
SendPayload(thread) ==
    /\ sending[thread].pc = "payload"
    /\ Commit(payloadSent(View("sendMessage", sending[thread].msg),
                          sending[thread].msg, thread))
    /\ wire' = IF fsm = "send"
                 THEN Append(wire, Part(thread, "payload",
                                        sending[thread].msg))
                 ELSE wire
    /\ sending' = [sending EXCEPT ![thread] = AfterSend(thread)]
    /\ UNCHANGED << lifeVars, configVars, peer_up, now, peer_sent >>

AppSendHeader(message) ==
    /\ AppMayCall
    /\ app_calls' = app_calls + 1
    /\ SendHeader("app", message)

AppSendPayload ==
    /\ ~aborted
    /\ SendPayload("app")
    /\ UNCHANGED app_calls

(* The worker at the top of its loop: the heartbeat when it is due. *)
WorkerHeartbeatHeader ==
    /\ ~aborted
    /\ worker_thread_
    /\ ~should_stop_
    /\ sending["worker"].pc = "top"
    /\ IF now - last_heartbeat_ >= DEFAULT_HEARTBEAT_INTERVAL
         THEN SendHeader("worker", Heartbeat(View("workerThread", "none")))
         ELSE /\ sending' = [sending EXCEPT !["worker"] = AfterSend("worker")]
              /\ UNCHANGED << zmqVars, wire >>
    /\ UNCHANGED app_calls

WorkerHeartbeatPayload ==
    /\ ~aborted
    /\ SendPayload("worker")
    /\ UNCHANGED app_calls

(* The rest of the worker's iteration: the recv calls and what follows. *)
WorkerReceive ==
    /\ ~aborted
    /\ sending["worker"].pc = "recv"
    /\ Commit(receive(View("workerThread", "none"), "ok"))
    /\ sending' = [sending EXCEPT !["worker"] = NotSending]
    /\ UNCHANGED << lifeVars, configVars, peer_up, now, app_calls,
                    peer_sent, wire >>

(***************************************************************************)
(* The frame capture, FrameCapture.  captureFrame puts a frame on          *)
(* frame_queue_; two consumers take frames off it under queue_mutex_: the  *)
(* encode thread that initialize() starts, and getEncodedFrame on the      *)
(* thread of the application.                                              *)
(*   frame_queue_     the queued frames, each named by its number          *)
(*   encode_thread_   where the encode thread is: "unstarted", "checking"  *)
(*                    (at the top of its loop, or evaluating the predicate *)
(*                    of its wait), "blocked" (inside the wait),           *)
(*                    "encoding" the frame it took, or "exited"            *)
(*   frame_stop_      FrameCapture::should_stop_                           *)
(*   frames_captured  stats_.frames_captured                               *)
(*   capture          the application thread: the last call it made and    *)
(*                    what came of it, and where it is in the destructor   *)
(***************************************************************************)
MaxFrames == 3

VARIABLES frame_queue_, encode_thread_, frame_stop_, frames_captured, capture

frameVars ==
    << frame_queue_, encode_thread_, frame_stop_, frames_captured, capture >>

NoFrame == 0

EncodeAt(pc, frame) == [pc |-> pc, frame |-> frame]

(* What a call of the application left behind: its name, what it           *)
(* returned, the frame it queued or took, and what the hardware did.       *)
CaptureCall(pc, name, ret, frame, hw) ==
    [pc |-> pc, name |-> name, ret |-> ret, frame |-> frame, hw |-> hw]

FrameIdle ==
    /\ frame_queue_ = << >>
    /\ encode_thread_ = EncodeAt("unstarted", NoFrame)
    /\ frame_stop_ = FALSE
    /\ frames_captured = 0
    /\ capture = CaptureCall("idle", "FrameCapture", TRUE, NoFrame, "ok")

Initialized == encode_thread_.pc # "unstarted"

(* initialize: the three subsystems, then the encode thread. *)
initialize(ok) ==
    /\ capture.pc = "idle"
    /\ ~Initialized
    /\ encode_thread_' =
           IF ok THEN EncodeAt("checking", NoFrame) ELSE encode_thread_
    /\ capture' = CaptureCall("idle", "initialize", ok, NoFrame,
                              IF ok THEN "ok" ELSE "failed")
    /\ UNCHANGED << frame_queue_, frame_stop_, frames_captured >>

CaptureOutcomes == {"ok", "copy_failed", "cuda_failed"}

(* notify_one: a thread blocked in the wait goes back to its predicate. *)
Notified(thread) ==
    IF thread.pc = "blocked" THEN EncodeAt("checking", NoFrame) ELSE thread

(* captureFrame: copy the image, push the frame, notify, count it. *)
captureFrame(outcome) ==
    /\ capture.pc = "idle"
    /\ Initialized
    /\ frames_captured < MaxFrames
    /\ IF outcome = "ok"
         THEN /\ frame_queue_' = Append(frame_queue_, frames_captured + 1)
              /\ encode_thread_' = Notified(encode_thread_)
              /\ frames_captured' = frames_captured + 1
              /\ capture' = CaptureCall("idle", "captureFrame", TRUE,
                                        frames_captured + 1, outcome)
         ELSE /\ capture' = CaptureCall("idle", "captureFrame", FALSE,
                                        NoFrame, outcome)
              /\ UNCHANGED << frame_queue_, encode_thread_, frames_captured >>
    /\ UNCHANGED frame_stop_

EncodeOutcomes == {"ok", "encode_failed", "lock_failed"}

(* getEncodedFrame: false on an empty queue; otherwise take the front      *)
(* frame, encode it and copy the bitstream out.                            *)
getEncodedFrame(hw) ==
    /\ capture.pc = "idle"
    /\ Initialized
    /\ IF frame_queue_ = << >>
         THEN /\ capture' = CaptureCall("idle", "getEncodedFrame", FALSE,
                                        NoFrame, "none")
              /\ UNCHANGED frame_queue_
         ELSE /\ frame_queue_' = Tail(frame_queue_)
              /\ capture' = CaptureCall("idle", "getEncodedFrame", hw = "ok",
                                        Head(frame_queue_), hw)
    /\ UNCHANGED << encode_thread_, frame_stop_, frames_captured >>

(* should_stop_ is a plain bool written by the destructor with no lock     *)
(* held: a read on the encode thread may or may not see the write.         *)
StopReads == IF frame_stop_ THEN {TRUE, FALSE} ELSE {FALSE}

(* encodeThread, from the top of the loop to the pop or into the wait. *)
EncodeCheck(seen) ==
    /\ encode_thread_.pc = "checking"
    /\ IF seen
         THEN /\ encode_thread_' = EncodeAt("exited", NoFrame)
              /\ UNCHANGED frame_queue_
         ELSE IF frame_queue_ # << >>
           THEN /\ encode_thread_' = EncodeAt("encoding", Head(frame_queue_))
                /\ frame_queue_' = Tail(frame_queue_)
           ELSE /\ encode_thread_' = EncodeAt("blocked", NoFrame)
                /\ UNCHANGED frame_queue_
    /\ UNCHANGED << frame_stop_, frames_captured, capture >>

(* encodeFrame on the encode thread; its result changes nothing. *)
EncodeDone ==
    /\ encode_thread_.pc = "encoding"
    /\ encode_thread_' = EncodeAt("checking", NoFrame)
    /\ UNCHANGED << frame_queue_, frame_stop_, frames_captured, capture >>

(* A wait may return with no notification. *)
EncodeSpuriousWake ==
    /\ encode_thread_.pc = "blocked"
    /\ encode_thread_' = EncodeAt("checking", NoFrame)
    /\ UNCHANGED << frame_queue_, frame_stop_, frames_captured, capture >>

(* flush inside the destructor: past the wait when the queue is empty,     *)
(* and then should_stop_ = true; inside the wait otherwise.                *)
Flushed ==
    IF frame_queue_ = << >>
      THEN /\ frame_stop_' = TRUE
           /\ capture' = CaptureCall("joining", "~FrameCapture", FALSE,
                                     NoFrame, "none")
      ELSE /\ capture' = CaptureCall("flushing", "~FrameCapture", FALSE,
                                     NoFrame, "none")
           /\ UNCHANGED frame_stop_

Destroy ==
    /\ capture.pc = "idle"
    /\ Flushed
    /\ UNCHANGED << frame_queue_, encode_thread_, frames_captured >>

(* Nothing notifies queue_cv_ when a frame is taken: the wait of flush     *)
(* ends only by returning with no notification.                            *)
FlushSpuriousWake ==
    /\ capture.pc = "flushing"
    /\ frame_queue_ = << >>
    /\ Flushed
    /\ UNCHANGED << frame_queue_, encode_thread_, frames_captured >>

(* join, then cleanupResources. *)
Join ==
    /\ capture.pc = "joining"
    /\ encode_thread_.pc \in {"unstarted", "exited"}
    /\ capture' = CaptureCall("destroyed", "~FrameCapture", TRUE, NoFrame,
                              "none")
    /\ UNCHANGED << frame_queue_, encode_thread_, frame_stop_,
                    frames_captured >>

(***************************************************************************)
(* The proxy, lock by lock.  An operation takes the mutex of its registry  *)
(* in a lock_guard after sendCommand has returned, changes the map and     *)
(* lets the mutex go; the destructor calls cleanupResources, which takes   *)
(* the mutexes in the order of their declaration, clears the maps and      *)
(* lets the mutexes go, and then network_->disconnect().                   *)
(*   mutexes     per registry mutex, the thread that holds it (Free: none) *)
(*   destructor  where ~VulkanICD is: "alive" (not called), "locking"      *)
(*               inside cleanupResources, "disconnect", "gone"             *)
(* A thread is at "back" when sendCommand has returned to the operation    *)
(* and at "locked" when it holds the mutex of its registry.                *)
(***************************************************************************)
VARIABLES mutexes, destructor

lockVars == << mutexes, destructor >>

(***************************************************************************)
(* The transport, thread by thread.  start(), stop() and sendMessage are   *)
(* called by threads of the application and take no lock; the members      *)
(* should_stop_ and connected_ are atomic, worker_thread_ and socket_ are  *)
(* not.                                                                    *)
(*   callers   per application thread, the function it is in and where:    *)
(*             start at "spawn" (joinable() was false) and "assign" (the   *)
(*             std::thread is built, the move to worker_thread_ is next),  *)
(*             stop at "join", "release" (the socket) and "mark"           *)
(*             (DISCONNECTED), sendMessage at "send" (connected_ was true) *)
(*   workers   the threads that run workerThread                           *)
(*   fault     how the process died: "null_socket" (a call through the     *)
(*             released socket_), "terminate" (std::terminate)             *)
(***************************************************************************)
VARIABLES callers, workers, fault

lifeThreadVars == << callers, workers, fault >>

threadVars == << lockVars, lifeThreadVars >>

Free == 0

DestructorThread == 3

Mutexes == << "instance_mutex_", "device_mutex_" >>

Caller(function, pc) == [function |-> function, pc |-> pc]

ThreadIdle ==
    /\ mutexes = [m \in {"instance_mutex_", "device_mutex_"} |-> Free]
    /\ destructor = "alive"
    /\ callers = [t \in Threads |-> Caller("none", "idle")]
    /\ workers = IF worker_thread_ THEN 1 ELSE 0
    /\ fault = "none"

MutexOf(fn) ==
    IF fn \in {"vkCreateInstance", "vkDestroyInstance"}
      THEN "instance_mutex_" ELSE "device_mutex_"

(* Whether the operation goes to its registry with this result. *)
Touches(call) ==
    \/ call.fn \in VoidOperations
    \/ call.fn \in IcdOperations /\ call.result = "VK_SUCCESS"

(* The end of a lock_guard's scope as it would be if nothing were let go. *)
Released_never(held, thread) == held

(* The end of a lock_guard's scope: what the thread holds is let go. *)
Released(held, thread) ==
    [m \in DOMAIN held |-> IF held[m] = thread THEN Free ELSE held[m]]

Back(call, result) == [Finish(call, result) EXCEPT !.pc = "back"]

(* Thread t enters an operation and calls sendCommand, up to the return of *)
(* sendMessage.                                                            *)
ProxyEnter(t, fn, handle, outcome) ==
    /\ constructed
    /\ ~aborted
    /\ ~blocked
    /\ destructor = "alive"
    /\ calls[t].pc = "idle"
    /\ LET r == sendMessage(View(fn, handle), IcdMessage(fn, handle), outcome)
           call == [IdleCall EXCEPT !.fn = fn, !.handle = handle,
                                    !.sequence = IcdMessage(fn, handle).sequence,
                                    !.start = now, !.sent = r.op.ret]
       IN  /\ Commit(r)
           /\ calls' = [calls EXCEPT ![t] =
                  IF r.op.ret
                    THEN [call EXCEPT !.pc = "waiting"]
                    ELSE Back(call, "VK_ERROR_INITIALIZATION_FAILED")]
    /\ UNCHANGED << lifeVars, configVars, peer_up, now, app_calls, peer_sent,
                    instances_, devices_, threadVars >>

(* waitForResponse returns to sendCommand, and sendCommand to the          *)
(* operation.                                                              *)
WaitEnds(t) ==
    /\ ~aborted
    /\ calls[t].pc = "waiting"
    /\ now - calls[t].start >= ResponseTimeoutMs
    /\ calls' = [calls EXCEPT ![t] =
                     Back(@, waitForResponse(calls[t].sequence))]
    /\ UNCHANGED << zmqVars, instances_, devices_, threadVars >>

(* The lock_guard of the operation. *)
RegistryLock(t) ==
    /\ calls[t].pc = "back"
    /\ Touches(calls[t])
    /\ mutexes[MutexOf(calls[t].fn)] = Free
    /\ mutexes' = [mutexes EXCEPT ![MutexOf(calls[t].fn)] = t]
    /\ calls' = [calls EXCEPT ![t].pc = "locked"]
    /\ UNCHANGED << zmqVars, instances_, devices_, destructor,
                    lifeThreadVars >>

(* The insert or the erase, and the end of the lock_guard's scope. *)
RegistryUpdate(t) ==
    /\ calls[t].pc = "locked"
    /\ instances_' = Registered(instances_, calls[t], calls[t].result)
    /\ devices_' = RegisteredDevices(devices_, calls[t], calls[t].result)
    /\ mutexes' = Released(mutexes, t)
    /\ calls' = [calls EXCEPT ![t].pc = "done"]
    /\ UNCHANGED << zmqVars, destructor, lifeThreadVars >>

(* An operation that has nothing to do in its registry returns. *)
ProxyReturn(t) ==
    /\ calls[t].pc = "back"
    /\ ~Touches(calls[t])
    /\ calls' = [calls EXCEPT ![t].pc = "done"]
    /\ UNCHANGED << zmqVars, instances_, devices_, threadVars >>

(* ~VulkanICD is called. *)
DestructorEnter ==
    /\ constructed
    /\ destructor = "alive"
    /\ destructor' = "locking"
    /\ UNCHANGED << zmqVars, icdVars, mutexes, lifeThreadVars >>

(* cleanupResources takes the next mutex of its list. *)
NextMutex ==
    IF mutexes[Mutexes[1]] # DestructorThread THEN Mutexes[1] ELSE Mutexes[2]

cleanupLock ==
    /\ destructor = "locking"
    /\ mutexes[Mutexes[Len(Mutexes)]] # DestructorThread
    /\ mutexes[NextMutex] = Free
    /\ mutexes' = [mutexes EXCEPT ![NextMutex] = DestructorThread]
    /\ UNCHANGED << zmqVars, icdVars, destructor, lifeThreadVars >>

(* cleanupResources clears the maps and returns. *)
cleanupResources ==
    /\ destructor = "locking"
    /\ \A i \in 1..Len(Mutexes) : mutexes[Mutexes[i]] = DestructorThread
    /\ instances_' = {}
    /\ devices_' = {}
    /\ mutexes' = Released(mutexes, DestructorThread)
    /\ destructor' = "disconnect"
    /\ UNCHANGED << zmqVars, calls, lifeThreadVars >>

(* network_->disconnect(), and the members are destroyed. *)
disconnect ==
    /\ destructor = "disconnect"
    /\ destructor' = "gone"
    /\ UNCHANGED << zmqVars, icdVars, mutexes, lifeThreadVars >>

(***************************************************************************)
(* start(), stop() and sendMessage, statement by statement.                *)
(***************************************************************************)
Idle(t) == callers[t].pc = "idle" /\ ~aborted

At(t, function, pc) ==
    /\ callers[t] = Caller(function, pc)
    /\ ~aborted

Goes(t, function, pc) == callers' = [callers EXCEPT ![t] = Caller(function, pc)]

(* start(): the test of joinable(). *)
StartCheck(t) ==
    /\ Idle(t)
    /\ Goes(t, "start", IF worker_thread_ THEN "idle" ELSE "spawn")
    /\ UNCHANGED << zmqVars, workers, fault >>

(* start(): should_stop_ = false, and the std::thread is built: the new    *)
(* thread runs from here on.                                               *)
StartSpawn(t) ==
    /\ At(t, "start", "spawn")
    /\ should_stop_' = FALSE
    /\ workers' = workers + 1
    /\ Goes(t, "start", "assign")
    /\ UNCHANGED << constructed, role_, socket_, worker_thread_, connected_,
                    connection_state_, messages_received_, last_heartbeat_,
                    configVars, compression_stats_, network_speed_history_,
                    fsm, rx_queue, peer_up, now, worker_hung, blocked,
                    aborted, last_op, last_rx, app_calls, peer_sent, fault >>

(* start(): the move into worker_thread_, which calls std::terminate when  *)
(* worker_thread_ is joinable by now.                                      *)
StartAssign(t) ==
    /\ At(t, "start", "assign")
    /\ IF worker_thread_
         THEN /\ aborted' = TRUE
              /\ fault' = "terminate"
              /\ UNCHANGED worker_thread_
         ELSE /\ worker_thread_' = TRUE
              /\ UNCHANGED << aborted, fault >>
    /\ Goes(t, "start", "idle")
    /\ UNCHANGED << constructed, role_, socket_, should_stop_, connected_,
                    connection_state_, messages_received_, last_heartbeat_,
                    configVars, compression_stats_, network_speed_history_,
                    fsm, rx_queue, peer_up, now, worker_hung, blocked,
                    last_op, last_rx, app_calls, peer_sent, workers >>

(* stop(): should_stop_ = true and the test of joinable(). *)
StopFlag(t) ==
    /\ Idle(t)
    /\ should_stop_' = TRUE
    /\ Goes(t, "stop", IF worker_thread_ THEN "join" ELSE "release")
    /\ UNCHANGED << constructed, role_, socket_, worker_thread_, connected_,
                    connection_state_, messages_received_, last_heartbeat_,
                    configVars, compression_stats_, network_speed_history_,
                    fsm, rx_queue, peer_up, now, worker_hung, blocked,
                    aborted, last_op, last_rx, app_calls, peer_sent,
                    workers, fault >>

(* stop(): join() returns when the worker has left its loop.  When another *)
(* stop() has joined the thread in the meantime, join() throws             *)
(* std::system_error and stop() is left through it.                        *)
StopJoin(t) ==
    /\ At(t, "stop", "join")
    /\ IF worker_thread_
         THEN /\ workers = 0
              /\ worker_thread_' = FALSE
              /\ Goes(t, "stop", "release")
         ELSE /\ Goes(t, "stop", "idle")
              /\ UNCHANGED worker_thread_
    /\ UNCHANGED << constructed, role_, socket_, should_stop_, connected_,
                    connection_state_, messages_received_, last_heartbeat_,
                    configVars, compression_stats_, network_speed_history_,
                    fsm, rx_queue, peer_up, now, worker_hung, blocked,
                    aborted, last_op, last_rx, app_calls, peer_sent,
                    workers, fault >>

(* stop(): unbind or disconnect, and socket_.reset(). *)
StopRelease(t, cleanup_ok) ==
    /\ At(t, "stop", "release")
    /\ LET r == releaseSocket(View("stop", "none"), cleanup_ok)
       IN  /\ last_op' = r.op
           /\ socket_' = "null"
    /\ Goes(t, "stop", "mark")
    /\ UNCHANGED << constructed, role_, worker_thread_, should_stop_,
                    connected_, connection_state_, messages_received_,
                    last_heartbeat_, configVars, compression_stats_,
                    network_speed_history_, fsm, rx_queue, peer_up, now,
                    worker_hung, blocked, aborted, last_rx, app_calls,
                    peer_sent, workers, fault >>

(* stop(): DISCONNECTED and connected_ = false. *)
StopMark(t) ==
    /\ At(t, "stop", "mark")
    /\ connection_state_' = "DISCONNECTED"
    /\ connected_' = FALSE
    /\ Goes(t, "stop", "idle")
    /\ UNCHANGED << constructed, role_, socket_, worker_thread_,
                    should_stop_, messages_received_, last_heartbeat_,
                    configVars, compression_stats_, network_speed_history_,
                    fsm, rx_queue, peer_up, now, worker_hung, blocked,
                    aborted, last_op, last_rx, app_calls, peer_sent,
                    workers, fault >>

(* sendMessage: the test of connected_. *)
SendCheck(t) ==
    /\ Idle(t)
    /\ IF connected_
         THEN /\ Goes(t, "sendMessage", "send")
              /\ UNCHANGED last_op
         ELSE /\ Goes(t, "sendMessage", "idle")
              /\ last_op' = sendMessage(View("sendMessage", NoMessage),
                                        NoMessage, "ok").op
    /\ UNCHANGED << lifeVars, messages_received_, last_heartbeat_,
                    configVars, compression_stats_, network_speed_history_,
                    fsm, rx_queue, peer_up, now, worker_hung, blocked,
                    aborted, last_rx, app_calls, peer_sent, workers, fault >>

(* What went wrong in a call that ended the process. *)
Fault(s) == IF s.aborted /\ s.socket_ = "null" THEN "null_socket" ELSE fault

(* sendMessage past the test of connected_: the rest of the function, with *)
(* the socket as it is now.                                                *)
passed(s) == [s EXCEPT !.connected_ = TRUE]

SendSocket(t, message) ==
    /\ At(t, "sendMessage", "send")
    /\ Commit(sendMessage(passed(View("sendMessage", message)), message,
                          "ok"))
    /\ fault' = Fault(sendMessage(passed(View("sendMessage", message)),
                                  message, "ok"))
    /\ Goes(t, "sendMessage", "idle")
    /\ UNCHANGED << lifeVars, configVars, peer_up, now, app_calls, peer_sent,
                    workers >>

(* A worker runs its loop once. *)
WorkerRun ==
    /\ workers > 0
    /\ ~should_stop_
    /\ ~aborted
    /\ Commit(workerThread(View("workerThread", "none"), "ok", "ok"))
    /\ fault' = Fault(workerThread(View("workerThread", "none"), "ok", "ok"))
    /\ UNCHANGED << lifeVars, configVars, peer_up, now, app_calls, peer_sent,
                    callers, workers >>

(* A worker finds should_stop_ set and returns. *)
WorkerExit ==
    /\ workers > 0
    /\ should_stop_
    /\ ~aborted
    /\ workers' = workers - 1
    /\ UNCHANGED << zmqVars, callers, fault >>

hostVars == << calls, instances_, devices_, running_, sockVars, frameVars, threadVars >>

GPUServerInit ==
    /\ constructed = TRUE
    /\ role_ = "SERVER"
    /\ socket_ = "open"
    /\ worker_thread_ = TRUE
    /\ should_stop_ = FALSE
    /\ connected_ = TRUE
    /\ connection_state_ = "CONNECTED"
    /\ messages_received_ = 0
    /\ last_heartbeat_ = 0
    /\ message_callback_ = "none"
    /\ error_callback_ = FALSE
    /\ compression_type_ = "ZLIB"
    /\ adaptive_compression_ = FALSE
    /\ compression_stats_ = NoStats
    /\ network_speed_history_ = << >>
    /\ fsm = "recv"
    /\ rx_queue = << >>
    /\ peer_up = TRUE
    /\ now = 0
    /\ worker_hung = FALSE
    /\ blocked = FALSE
    /\ aborted = FALSE
    /\ last_op = Op("none", "none")
    /\ last_rx = 0
    /\ app_calls = 0
    /\ peer_sent = 0
    /\ IcdIdle
    /\ running_ = FALSE
    /\ SocketIdle
    /\ FrameIdle
    /\ ThreadIdle

GPUServerStart ==
    /\ ~aborted
    /\ running_' = TRUE
    /\ UNCHANGED << zmqVars, icdVars, sockVars, frameVars, threadVars >>

GPUServerStop ==
    /\ ~aborted
    /\ running_' = FALSE
    /\ UNCHANGED << zmqVars, icdVars, sockVars, frameVars, threadVars >>

(* The requests a client sends. *)
RequestTypes == {"VK_CREATE_INSTANCE", "VK_BEGIN_COMMAND_BUFFER", "FRAME_REQUEST"}

Requests ==
    { Msg("VK_CREATE_INSTANCE", 64, 4096, Raw(64, "low")),
      Msg("VK_BEGIN_COMMAND_BUFFER", 40, 8192, Raw(40, "low")),
      Msg("FRAME_REQUEST", 8, 7, Raw(8, "low")) }

(* The values of MessageType, and a request whose type byte is none of     *)
(* them (the tests cast 999 to the one-byte type, which gives 0xE7).       *)
MessageTypes ==
    {"CONNECT", "DISCONNECT", "HEARTBEAT", "VK_CREATE_INSTANCE",
     "VK_CREATE_DEVICE", "VK_CREATE_SWAPCHAIN", "VK_CREATE_COMMAND_POOL",
     "VK_CREATE_COMMAND_BUFFER", "VK_BEGIN_COMMAND_BUFFER",
     "VK_END_COMMAND_BUFFER", "VK_QUEUE_SUBMIT", "VK_ACQUIRE_NEXT_IMAGE",
     "VK_PRESENT", "FRAME_DATA", "FRAME_ACK", "FRAME_REQUEST", "ERROR",
     "RESET"}

Unrecognized == { Msg("0xE7", 0, 1, Empty) }

(***************************************************************************)
(* processCommand(message), a public member that the sources declare and   *)
(* do not define: it is taken from the description of the Dispatcher,      *)
(* which builds one response with the sequence of the request, carrying    *)
(* the result or an ERROR payload, and sends it through the transport.     *)
(* Nothing in the sources calls it; the caller here is an application      *)
(* thread, as in the server's tests.                                       *)
(***************************************************************************)
ResponseTo(message, failed) ==
    IF failed
      THEN [type |-> "ERROR", size |-> 8, sequence |-> message.sequence,
            compression |-> "NONE", payload |-> ErrorPayload(1, "fail")]
      ELSE Msg(message.type, 4, message.sequence, Raw(4, "low"))

processCommand(message, failed, outcome) ==
    /\ AppMayCall
    /\ app_calls' = app_calls + 1
    /\ Commit(sendMessage(View("processCommand", message),
                          ResponseTo(message, failed), outcome))
    /\ UNCHANGED << lifeVars, configVars, peer_up, now, peer_sent, hostVars >>

vars == << zmqVars, icdVars, running_, sockVars, frameVars, threadVars >>

(***************************************************************************)
(* The transport on its own, from before its construction.                 *)
(***************************************************************************)
Init ==
    /\ ZmqInit
    /\ IcdIdle
    /\ running_ = FALSE
    /\ SocketIdle
    /\ FrameIdle
    /\ ThreadIdle

Next ==
    \/ \E role \in Roles, outcome \in ConstructOutcomes :
           Construct(role, outcome) /\ UNCHANGED hostVars
    \/ start /\ UNCHANGED hostVars
    \/ \E cleanup_ok \in BOOLEAN : stop(cleanup_ok) /\ UNCHANGED hostVars
    \/ \E message \in AppMessages, outcome \in SendOutcomes :
           SendMessage(message, outcome) /\ UNCHANGED hostVars
    \/ \E callback \in {"record", "ack"} :
           setMessageCallback(callback) /\ UNCHANGED hostVars
    \/ setErrorCallback /\ UNCHANGED hostVars
    \/ \E type \in CompressionTypes :
           setCompressionType(type) /\ UNCHANGED hostVars
    \/ \E enable \in BOOLEAN :
           enableAdaptiveCompression(enable) /\ UNCHANGED hostVars
    \/ \E hb_outcome \in SendOutcomes, cb_outcome \in SendOutcomes :
           WorkerStep(hb_outcome, cb_outcome) /\ UNCHANGED hostVars
    \/ Tick /\ UNCHANGED hostVars
    \/ \E m \in PeerMessages : PeerSend(m) /\ UNCHANGED hostVars
    \/ PeerDown /\ UNCHANGED hostVars

Spec == Init /\ [][Next]_vars

(***************************************************************************)
(* The call proxy over its transport, from after its construction.         *)
(***************************************************************************)
(* The state after VulkanICD::VulkanICD: a client transport with           *)
(* handleResponse as its message callback.  The constructor builds the     *)
(* transport with ZMQWrapper(Role) and calls connect(address), which the   *)
(* transport of the sources does not define; the state taken is the one    *)
(* the operations need for a request to go out and a response to come      *)
(* back: the connection is up and the worker delivers what arrives.        *)
ProxyInit ==
    /\ constructed = TRUE
    /\ role_ = "CLIENT"
    /\ socket_ = "open"
    /\ worker_thread_ = TRUE
    /\ should_stop_ = FALSE
    /\ connected_ = TRUE
    /\ connection_state_ = "CONNECTED"
    /\ messages_received_ = 0
    /\ last_heartbeat_ = 0
    /\ message_callback_ = "handleResponse"
    /\ error_callback_ = FALSE
    /\ compression_type_ = "ZLIB"
    /\ adaptive_compression_ = FALSE
    /\ compression_stats_ = NoStats
    /\ network_speed_history_ = << >>
    /\ fsm = "send"
    /\ rx_queue = << >>
    /\ peer_up = TRUE
    /\ now = 0
    /\ worker_hung = FALSE
    /\ blocked = FALSE
    /\ aborted = FALSE
    /\ last_op = Op("none", "none")
    /\ last_rx = 0
    /\ app_calls = 0
    /\ peer_sent = 0
    /\ IcdIdle
    /\ running_ = FALSE
    /\ SocketIdle
    /\ FrameIdle
    /\ ThreadIdle

ProxyNext ==
    \/ \E t \in Threads, fn \in IcdOperations, handle \in Handles,
          outcome \in {"ok", "error"} :
           IcdCall(t, fn, handle, outcome) /\ UNCHANGED << running_, sockVars, frameVars, threadVars >>
    \/ \E t \in Threads : IcdReturn(t) /\ UNCHANGED << running_, sockVars, frameVars, threadVars >>
    \/ \E hb_outcome \in {"ok", "error"} :
           IcdWorker(hb_outcome) /\ UNCHANGED << running_, sockVars, frameVars, threadVars >>
    \/ \E m \in Replies : PeerSend(m) /\ UNCHANGED hostVars
    \/ Tick /\ UNCHANGED hostVars

ProxySpec == ProxyInit /\ [][ProxyNext]_vars

(***************************************************************************)
(* The server over its transport, from after its construction.             *)
(***************************************************************************)
ServerNext ==
    \/ GPUServerStart
    \/ GPUServerStop
    \/ \E hb_outcome \in SendOutcomes :
           WorkerStep(hb_outcome, "ok") /\ UNCHANGED hostVars
    \/ \E m \in Requests \cup Unrecognized :
           PeerSend(m) /\ UNCHANGED hostVars
    \/ \E message \in Requests, failed \in BOOLEAN, outcome \in SendOutcomes :
           processCommand(message, failed, outcome)
    \/ Tick /\ UNCHANGED hostVars
    \/ PeerDown /\ UNCHANGED hostVars

ServerSpec == GPUServerInit /\ [][ServerNext]_vars

(***************************************************************************)
(* The socket of a started, connected wrapper, call by call.               *)
(***************************************************************************)
SocketInit ==
    /\ constructed = TRUE
    /\ role_ \in Roles
    /\ socket_ = "open"
    /\ worker_thread_ = TRUE
    /\ should_stop_ = FALSE
    /\ connected_ = TRUE
    /\ connection_state_ = "CONNECTED"
    /\ messages_received_ = 0
    /\ last_heartbeat_ = 0
    /\ message_callback_ = "none"
    /\ error_callback_ = FALSE
    /\ compression_type_ = "ZLIB"
    /\ adaptive_compression_ = FALSE
    /\ compression_stats_ = NoStats
    /\ network_speed_history_ = << >>
    /\ fsm = IF role_ = "SERVER" THEN "recv" ELSE "send"
    /\ rx_queue = << >>
    /\ peer_up = TRUE
    /\ now = 0
    /\ worker_hung = FALSE
    /\ blocked = FALSE
    /\ aborted = FALSE
    /\ last_op = Op("none", "none")
    /\ last_rx = 0
    /\ app_calls = 0
    /\ peer_sent = 0
    /\ IcdIdle
    /\ running_ = FALSE
    /\ SocketIdle
    /\ FrameIdle
    /\ ThreadIdle

SocketNext ==
    \/ \E message \in AppMessages :
           AppSendHeader(message) /\ UNCHANGED << icdVars, running_, frameVars, threadVars >>
    \/ AppSendPayload /\ UNCHANGED << icdVars, running_, frameVars, threadVars >>
    \/ WorkerHeartbeatHeader /\ UNCHANGED << icdVars, running_, frameVars, threadVars >>
    \/ WorkerHeartbeatPayload /\ UNCHANGED << icdVars, running_, frameVars, threadVars >>
    \/ WorkerReceive /\ UNCHANGED << icdVars, running_, frameVars, threadVars >>
    \/ \E m \in PeerMessages : PeerSend(m) /\ UNCHANGED hostVars
    \/ Tick /\ UNCHANGED hostVars

SocketSpec == SocketInit /\ [][SocketNext]_vars

(***************************************************************************)
(* The frame capture: the application thread and the encode thread.        *)
(***************************************************************************)
otherVars == << zmqVars, icdVars, running_, sockVars, threadVars >>

FrameNext ==
    \/ \E ok \in BOOLEAN : initialize(ok) /\ UNCHANGED otherVars
    \/ \E outcome \in CaptureOutcomes :
           captureFrame(outcome) /\ UNCHANGED otherVars
    \/ \E hw \in EncodeOutcomes : getEncodedFrame(hw) /\ UNCHANGED otherVars
    \/ \E seen \in StopReads : EncodeCheck(seen) /\ UNCHANGED otherVars
    \/ EncodeDone /\ UNCHANGED otherVars
    \/ EncodeSpuriousWake /\ UNCHANGED otherVars
    \/ Destroy /\ UNCHANGED otherVars
    \/ FlushSpuriousWake /\ UNCHANGED otherVars
    \/ Join /\ UNCHANGED otherVars

FrameSpec == Init /\ [][FrameNext]_vars

(***************************************************************************)
(* The same with the scheduling the threads can count on: a thread that    *)
(* can take a step of its code takes it in the end, the encode thread in   *)
(* its loop and the destroying thread at its join.  A wait that returns    *)
(* with no notification is allowed by the condition variable and promised  *)
(* by nothing, and the application need never call again: neither is       *)
(* under fairness.                                                         *)
(***************************************************************************)
FrameFairness ==
    /\ WF_vars(\E seen \in StopReads : EncodeCheck(seen) /\ UNCHANGED otherVars)
    /\ WF_vars(EncodeDone /\ UNCHANGED otherVars)
    /\ WF_vars(Join /\ UNCHANGED otherVars)

FrameLiveSpec == Init /\ [][FrameNext]_vars /\ FrameFairness

(***************************************************************************)
(* The proxy over a connected transport, lock by lock, with its            *)
(* destructor.  The worker of the transport and the server are left out:   *)
(* waitForResponse looks at nothing that they do, and they touch neither   *)
(* a registry nor a mutex.                                                 *)
(***************************************************************************)
restVars == << running_, sockVars, frameVars >>

LockNext ==
    \/ \E t \in Threads, fn \in IcdOperations, handle \in Handles,
          outcome \in {"ok", "error"} :
           ProxyEnter(t, fn, handle, outcome) /\ UNCHANGED restVars
    \/ \E t \in Threads : WaitEnds(t) /\ UNCHANGED restVars
    \/ \E t \in Threads : RegistryLock(t) /\ UNCHANGED restVars
    \/ \E t \in Threads : RegistryUpdate(t) /\ UNCHANGED restVars
    \/ \E t \in Threads : ProxyReturn(t) /\ UNCHANGED restVars
    \/ DestructorEnter /\ UNCHANGED restVars
    \/ cleanupLock /\ UNCHANGED restVars
    \/ cleanupResources /\ UNCHANGED restVars
    \/ disconnect /\ UNCHANGED restVars
    \/ Tick /\ UNCHANGED hostVars

LockSpec == ProxyInit /\ [][LockNext]_vars

(***************************************************************************)
(* The transport of a client, constructed and connected, with two threads  *)
(* of the application in start(), stop() and sendMessage.                  *)
(***************************************************************************)
LifeInit ==
    /\ constructed = TRUE
    /\ role_ = "CLIENT"
    /\ socket_ = "open"
    /\ worker_thread_ = FALSE
    /\ should_stop_ = FALSE
    /\ connected_ = TRUE
    /\ connection_state_ = "CONNECTED"
    /\ messages_received_ = 0
    /\ last_heartbeat_ = 0
    /\ message_callback_ = "none"
    /\ error_callback_ = FALSE
    /\ compression_type_ = "ZLIB"
    /\ adaptive_compression_ = FALSE
    /\ compression_stats_ = NoStats
    /\ network_speed_history_ = << >>
    /\ fsm = "send"
    /\ rx_queue = << >>
    /\ peer_up = TRUE
    /\ now = 0
    /\ worker_hung = FALSE
    /\ blocked = FALSE
    /\ aborted = FALSE
    /\ last_op = Op("none", "none")
    /\ last_rx = 0
    /\ app_calls = 0
    /\ peer_sent = 0
    /\ IcdIdle
    /\ running_ = FALSE
    /\ SocketIdle
    /\ FrameIdle
    /\ ThreadIdle

lifeRest == << icdVars, running_, sockVars, frameVars, lockVars >>

LifeNext ==
    \/ \E t \in Threads : StartCheck(t) /\ UNCHANGED lifeRest
    \/ \E t \in Threads : StartSpawn(t) /\ UNCHANGED lifeRest
    \/ \E t \in Threads : StartAssign(t) /\ UNCHANGED lifeRest
    \/ \E t \in Threads : StopFlag(t) /\ UNCHANGED lifeRest
    \/ \E t \in Threads : StopJoin(t) /\ UNCHANGED lifeRest
    \/ \E t \in Threads, cleanup_ok \in BOOLEAN :
           StopRelease(t, cleanup_ok) /\ UNCHANGED lifeRest
    \/ \E t \in Threads : StopMark(t) /\ UNCHANGED lifeRest
    \/ \E t \in Threads : SendCheck(t) /\ UNCHANGED lifeRest
    \/ \E t \in Threads :
           SendSocket(t, Msg("FRAME_DATA", 5, 1, Raw(5, "low")))
               /\ UNCHANGED lifeRest
    \/ WorkerRun /\ UNCHANGED lifeRest
    \/ WorkerExit /\ UNCHANGED lifeRest

LifeSpec == LifeInit /\ [][LifeNext]_vars

(***************************************************************************)
(* sendMessage's choice to compress, over the settings, the payload sizes  *)
(* and the throughput histories it can meet: a connected client that has   *)
(* sent nothing, or has just sent one incompressible payload of 10240      *)
(* bytes, with each codec setting and with adaptive compression on or off. *)
(***************************************************************************)
SentBefore ==
    { << >>, << [at |-> 0, bytes |-> HeaderBytes + 10240] >> }

SizedMessages ==
    { Msg("FRAME_DATA", n, 1, Raw(n, "low")) :
          n \in {CompressionThreshold, CompressionThreshold + 1, 2048,
                 Lz4Cutover - 1, Lz4Cutover} }
        \cup { Msg("FRAME_DATA", 2048, 1, Raw(2048, "high")) }

CompressInit ==
    /\ constructed = TRUE
    /\ role_ = "CLIENT"
    /\ socket_ = "open"
    /\ worker_thread_ = FALSE
    /\ should_stop_ = FALSE
    /\ connected_ = TRUE
    /\ connection_state_ = "CONNECTED"
    /\ messages_received_ = 0
    /\ last_heartbeat_ = 0
    /\ message_callback_ = "none"
    /\ error_callback_ = FALSE
    /\ compression_type_ \in CompressionTypes
    /\ adaptive_compression_ \in BOOLEAN
    /\ compression_stats_ = NoStats
    /\ network_speed_history_ \in SentBefore
    /\ fsm = "send"
    /\ rx_queue = << >>
    /\ peer_up = TRUE
    /\ now = 0
    /\ worker_hung = FALSE
    /\ blocked = FALSE
    /\ aborted = FALSE
    /\ last_op = Op("none", "none")
    /\ last_rx = 0
    /\ app_calls = 0
    /\ peer_sent = 0
    /\ IcdIdle
    /\ running_ = FALSE
    /\ SocketIdle
    /\ FrameIdle
    /\ ThreadIdle

CompressNext ==
    \/ \E message \in SizedMessages :
           SendMessage(message, "ok") /\ UNCHANGED hostVars
    \/ Tick /\ UNCHANGED hostVars

CompressSpec == CompressInit /\ [][CompressNext]_vars

(***************************************************************************)
(* Properties of the call proxy (ProxySpec).                               *)
(***************************************************************************)
Done(t) == calls[t].pc = "done"

(* A call that is still waiting and has seen no response of its sequence. *)
Pending(t) == calls[t].pc = "waiting" /\ calls[t].answer = NoMessage

(* C1: a call whose request was sent and for which a response of the same  *)
(* sequence, not of type ERROR, arrived before the deadline ends with      *)
(* VK_SUCCESS and not with a timeout.                                      *)
C1_ResponseWakesCaller ==
    \A t \in Threads :
        (Done(t) /\ calls[t].answer.type \notin {"NONE", "ERROR"})
            => calls[t].result = "VK_SUCCESS"

C3_ErrorSurfaced ==
    \A t \in Threads :
        (Done(t) /\ calls[t].answer.type = "ERROR")
            => calls[t].result \notin {"VK_SUCCESS", "VK_TIMEOUT"}

(* C4: no two pending calls carry the same header.sequence. *)
C4_SequencesUnique ==
    \A t1 \in Threads, t2 \in Threads :
        (t1 # t2 /\ Pending(t1) /\ Pending(t2))
            => calls[t1].sequence # calls[t2].sequence

(***************************************************************************)
(* Properties of the server (ServerSpec).                                  *)
(***************************************************************************)
ResponsesTo(request, sent) ==
    { i \in 1..Len(sent) : /\ sent[i].sequence = request.sequence
                            /\ sent[i].type # "HEARTBEAT" }

(* C5: when the server's worker has taken a request off the socket and     *)
(* finished handling it, exactly one response with the request's sequence  *)
(* has been sent.                                                          *)
C5_RequestAnswered ==
    ( /\ last_op.name = "workerThread"
      /\ last_op.rx # << >>
      /\ last_op.rx[1].type \in RequestTypes )
        => Cardinality(ResponsesTo(last_op.rx[1], last_op.tx)) = 1

(***************************************************************************)
(* Properties of the transport (Spec).                                     *)
(***************************************************************************)
SendCalls == { last_op.calls[i] : i \in 1..Len(last_op.calls) }

(* C6: with an error callback registered, every sendMessage call with      *)
(* header.size above the limit returns false, touches the socket not at    *)
(* all, and gives the error callback exactly one text, the one that says   *)
(* "exceeds limit".                                                        *)
C6_OversizeRejected ==
    \A c \in SendCalls :
        (c.message.size > MAX_MESSAGE_SIZE /\ error_callback_)
            => /\ c.ret = FALSE
               /\ c.io = 0
               /\ c.errors = << "Message size exceeds limit" >>

(* C7: a sendMessage call that returned false reported exactly one error   *)
(* (to the error callback when one is registered) and made at most one     *)
(* transmission, of at most the two parts of the message; a call that      *)
(* returned true reported none and put its message on the wire once.       *)
C7_FailureReportedOnce ==
    \A c \in SendCalls :
        /\ c.ret = FALSE =>
               /\ c.reports = 1
               /\ Len(c.errors) = IF error_callback_ THEN 1 ELSE 0
               /\ c.io <= 2
               /\ c.tx = << >>
        /\ c.ret = TRUE =>
               /\ c.reports = 0
               /\ c.errors = << >>
               /\ c.io = 2
               /\ Len(c.tx) = 1

(* C7: a call that touched the socket, returned false and reported once. *)
C7_FailedTransmission ==
    \E c \in SendCalls :
        /\ c.ret = FALSE
        /\ c.io > 0
        /\ error_callback_
        /\ Len(c.errors) = 1

(* C8: a connected client whose peer is unreachable and whose worker has   *)
(* met an I/O error has left CONNECTED.                                    *)
C8_UnreachablePeerReconnects ==
    ( /\ role_ = "CLIENT"
      /\ connected_
      /\ ~peer_up
      /\ last_op.name = "workerThread"
      /\ last_op.reports > 0 )
        => connection_state_ # "CONNECTED"

(* C9: the connection state changes along the edges of the machine only:   *)
(* construction leaves it DISCONNECTED and only start() leads out of       *)
(* DISCONNECTED, into CONNECTING; CONNECTED is entered from CONNECTING or  *)
(* RECONNECTING, RECONNECTING from CONNECTED; stop() leads to DISCONNECTED.*)
MachineEdges ==
    { << "DISCONNECTED", "CONNECTING" >>, << "CONNECTING", "CONNECTED" >>,
      << "CONNECTED", "RECONNECTING" >>, << "RECONNECTING", "CONNECTED" >>,
      << "RECONNECTING", "DISCONNECTED" >>,
      << "CONNECTING", "DISCONNECTED" >>, << "CONNECTED", "DISCONNECTED" >> }

C9_EdgesOfTheMachine ==
    [][ /\ connection_state_' # connection_state_ =>
              << connection_state_, connection_state_' >> \in MachineEdges
        /\ (connection_state_ = "DISCONNECTED"
              /\ connection_state_' # "DISCONNECTED") =>
              last_op'.name = "start" ]_vars

(* C10: a connected endpoint whose worker runs and that has received       *)
(* nothing for longer than the connection timeout has left CONNECTED.      *)
C10_SilenceLeavesConnected ==
    ( /\ connected_
      /\ last_op.name = "workerThread"
      /\ now - last_rx > DEFAULT_CONNECTION_TIMEOUT )
        => connection_state_ # "CONNECTED"

(* The HEARTBEAT messages among those put on the wire. *)
HeartbeatsIn(sent) == { i \in 1..Len(sent) : sent[i].type = "HEARTBEAT" }

(* C11: when the worker of a connected endpoint runs an iteration while    *)
(* the heartbeat interval has passed since the last heartbeat, a HEARTBEAT *)
(* goes out, unless the socket, ready to send, failed the send itself.     *)
C11_HeartbeatGoesOut ==
    [][ ( /\ last_op'.name = "workerThread"
          /\ connected_
          /\ socket_ = "open"
          /\ now - last_heartbeat_ >= DEFAULT_HEARTBEAT_INTERVAL )
            => \/ HeartbeatsIn(last_op'.tx) # {}
               \/ fsm = "send" ]_vars

(* C12: whatever state the wrapper is in, a call of stop() returns, and it *)
(* leaves the wrapper DISCONNECTED and not connected, with the worker      *)
(* joined and the socket released.                                         *)
C12_StopReleasesEverything ==
    [][ last_op'.name = "stop"
            => /\ ~blocked'
               /\ connection_state_' = "DISCONNECTED"
               /\ ~connected_'
               /\ ~worker_thread_'
               /\ socket_' = "null" ]_vars

(* The fields of the wrapper that start() and stop() write. *)
lifeState ==
    << should_stop_, worker_thread_, socket_, connection_state_, connected_ >>

(* C13: start() and stop() are idempotent.  A start() while the worker is  *)
(* running returns false and changes nothing; a stop() of a wrapper that   *)
(* is already stopped leaves its state as it is, joins no thread, makes no *)
(* unbind or disconnect and calls no error callback.                       *)
C13_StartStopIdempotent ==
    [][ /\ ( /\ last_op'.name = "start"
             /\ app_calls' = app_calls + 1
             /\ worker_thread_ )
               => /\ ~last_op'.ret
                  /\ UNCHANGED lifeState
        /\ ( /\ last_op'.name = "stop"
             /\ app_calls' = app_calls + 1
             /\ should_stop_
             /\ ~worker_thread_ )
               => /\ UNCHANGED lifeState
                  /\ ~blocked'
                  /\ last_op'.io = 0
                  /\ last_op'.reports = 0
                  /\ last_op'.errors = << >> ]_vars

(* A wrapper that worked has been stopped, and stop() has run once more. *)
C13_StoppedTwice ==
    /\ last_op.name = "stop"
    /\ last_op.io = 0
    /\ messages_received_ > 0
    /\ should_stop_
    /\ socket_ = "null"

(* C14: the parts the socket is handed are never those of two messages     *)
(* mixed: what follows the header of a message is the payload of the same  *)
(* message, sent by the same thread.                                       *)
C14_PartsNeverInterleaved ==
    \A i \in 1..Len(wire) :
        wire[i].part = "header" /\ i < Len(wire)
            => /\ wire[i + 1].part = "payload"
               /\ wire[i + 1].from = wire[i].from
               /\ wire[i + 1].sequence = wire[i].sequence

(* C15: the message callback and the error callback run on the worker      *)
(* thread only: an operation the application calls invokes neither.        *)
C15_CallbacksOnWorkerOnly ==
    last_op.name # "workerThread"
        => /\ last_op.errors = << >>
           /\ last_op.delivered = << >>

(* The uncompressed bytes a payload was made from. *)
Original(payload) == Raw(payload.plain.len, payload.plain.entropy)

(* C16: a message that arrives compressed reaches the message callback     *)
(* with the sender's uncompressed payload, whatever compression type the   *)
(* receiving wrapper is set to.                                            *)
C16_CompressedDeliveredIntact ==
    ( /\ last_op.name = "workerThread"
      /\ message_callback_ # "none"
      /\ last_op.rx # << >> )
        => \A i \in 1..Len(last_op.rx) :
               last_op.rx[i].compression # "NONE"
                   => /\ Len(last_op.delivered) = Len(last_op.rx)
                      /\ last_op.delivered[i].payload
                             = Original(last_op.rx[i].payload)

(* The messages the calls of sendMessage put on the wire, each with the    *)
(* message the caller passed.                                              *)
Transmissions ==
    { [given |-> c.message, sent |-> c.tx[1]] :
          c \in { d \in SendCalls : d.tx # << >> } }

C18_HeaderNamesTheCodec ==
    \A x \in Transmissions : x.sent.compression = x.sent.payload.codec

(* C19: the size field of a header on the wire is the length of the        *)
(* uncompressed payload, whatever the caller had put into the field.       *)
C19_SizeIsPayloadLength ==
    \A x \in Transmissions : x.sent.size = x.given.payload.bytes

(* A compressed message that a receiver set to `type' cannot decompress. *)
Undecodable(type, m) ==
    /\ m.compression # "NONE"
    /\ decompressData(type, m.payload, m.size).out # Original(m.payload)

(* C20: when the worker takes a message whose payload cannot be            *)
(* decompressed, decompression_failures goes up by exactly one, the        *)
(* message callback is not called, and the worker goes on running.         *)
C20_UndecodableCountedOnce ==
    [][ ( /\ last_op'.name = "workerThread"
          /\ rx_queue # << >>
          /\ rx_queue' = << >>
          /\ Undecodable(compression_type_, Head(rx_queue)) )
            => /\ compression_stats_'.decompression_failures
                      = compression_stats_.decompression_failures + 1
               /\ last_op'.delivered = << >>
               /\ ~aborted'
               /\ ~worker_hung' ]_vars

(***************************************************************************)
(* Properties of the registries of the call proxy (ProxySpec).             *)
(***************************************************************************)
(* The registry an operation works on. *)
RegistryOf(fn, instances, devices) ==
    IF fn \in {"vkCreateInstance", "vkDestroyInstance"}
      THEN instances ELSE devices

(* Thread t returns from its operation in this step. *)
Returns(t) == calls[t].pc # "done" /\ calls'[t].pc = "done"

C25_BindFailureReported ==
    (last_op.name = "ZMQWrapper" /\ socket_ # "open")
        => /\ last_op.errors # << >>
           /\ connection_state_ = "DISCONNECTED"
           /\ ~connected_

(***************************************************************************)
(* Properties of the server, continued (ServerSpec).                       *)
(***************************************************************************)
(* C26: when the worker takes a message whose type is none of the values   *)
(* of MessageType, an error is reported, the message is not handed on as a *)
(* command, and the worker goes on running.                                *)
C26_UnknownTypeReported ==
    ( /\ last_op.name = "workerThread"
      /\ last_op.rx # << >>
      /\ last_op.rx[1].type \notin MessageTypes )
        => /\ last_op.reports > 0
           /\ last_op.delivered = << >>
           /\ ~aborted
           /\ ~worker_hung

(***************************************************************************)
(* Properties of the compression statistics (Spec).                        *)
(***************************************************************************)
(* The messages of `sent' that went out in compressed form, and those of   *)
(* `taken' that a receiver set to `type' decompressed.                     *)
CompressedIn(sent) ==
    { i \in 1..Len(sent) : sent[i].payload.codec # "NONE" }

DecompressedIn(type, taken) ==
    { i \in 1..Len(taken) : /\ taken[i].compression # "NONE"
                            /\ ~Undecodable(type, taken[i]) }

(* C27: a send that succeeds raises messages_compressed by the number of   *)
(* messages it put on the socket in compressed form and leaves             *)
(* messages_decompressed alone; a pass of the worker raises                *)
(* messages_decompressed by the number of messages it received and         *)
(* decompressed and, sending nothing compressed, leaves                    *)
(* messages_compressed alone.  The two counters are then the totals of     *)
(* the endpoint.                                                           *)
C27_CountersFollowTraffic ==
    [][ /\ (last_op' # last_op /\ last_op'.name = "sendMessage" /\ last_op'.ret)
            => /\ compression_stats_'.messages_compressed
                      = compression_stats_.messages_compressed
                        + Cardinality(CompressedIn(last_op'.tx))
               /\ compression_stats_'.messages_decompressed
                      = compression_stats_.messages_decompressed
        /\ (last_op' # last_op /\ last_op'.name = "workerThread")
            => /\ compression_stats_'.messages_compressed
                      = compression_stats_.messages_compressed
                        + Cardinality(CompressedIn(last_op'.tx))
               /\ compression_stats_'.messages_decompressed
                      = compression_stats_.messages_decompressed
                        + Cardinality(DecompressedIn(compression_type_,
                                                     last_op'.rx)) ]_vars

(***************************************************************************)
(* Properties of the frame capture (FrameSpec).                            *)
(***************************************************************************)
(* C28: the getEncodedFrame that follows a successful captureFrame finds   *)
(* the captured frame on the queue, no other consumer having taken it, and *)
(* returns true when the encoder does its work.                            *)
C28_CapturedFrameAvailable ==
    [][ ( /\ capture.name = "captureFrame" /\ capture.ret
          /\ capture'.name = "getEncodedFrame" )
            => /\ \E i \in 1..Len(frame_queue_) :
                      frame_queue_[i] = capture.frame
               /\ capture'.hw = "ok" => capture'.ret ]_vars

(***************************************************************************)
(* Further properties of the call proxy (ProxySpec).                       *)
(***************************************************************************)
(* C29: a destroy call does not wait for a response of the server: at no   *)
(* time is a thread inside a destroy function waiting in waitForResponse,  *)
(* and a destroy call returns at the time it was made.                     *)
C29_DestroyDoesNotWait ==
    \A t \in Threads :
        calls[t].fn \in VoidOperations
            => /\ calls[t].pc # "waiting"
               /\ Done(t) => now = calls[t].start

(* C30: a registry gains an entry only in the step in which a create call  *)
(* returns VK_SUCCESS; a create call that returns anything else (its send  *)
(* was rejected, or it timed out) leaves every registry as it was.         *)
CreateOperations == {"vkCreateInstance", "vkCreateDevice"}

C30_OnlySuccessfulCreateInserts ==
    [][ /\ (instances_' \ instances_) \cup (devices_' \ devices_) # {}
            => \E t \in Threads :
                   /\ Returns(t)
                   /\ calls'[t].fn \in CreateOperations
                   /\ calls'[t].result = "VK_SUCCESS"
        /\ \A t \in Threads :
               ( /\ Returns(t)
                 /\ calls'[t].fn \in CreateOperations
                 /\ calls'[t].result # "VK_SUCCESS" )
                   => /\ instances_' = instances_
                      /\ devices_' = devices_ ]_vars

(* A create call whose request went out has returned a timeout, and a      *)
(* create call whose send was rejected has returned; no registry holds     *)
(* the handle of either.                                                   *)
C30_FailedCreatesLeftNothing ==
    /\ \E t \in Threads :
           /\ Done(t) /\ calls[t].fn \in CreateOperations /\ calls[t].sent
           /\ calls[t].result = "VK_TIMEOUT"
           /\ calls[t].handle \notin instances_ \cup devices_
    /\ \E t \in Threads :
           /\ Done(t) /\ calls[t].fn \in CreateOperations /\ ~calls[t].sent
           /\ calls[t].result = "VK_ERROR_INITIALIZATION_FAILED"
           /\ calls[t].handle \notin instances_ \cup devices_

(***************************************************************************)
(* Properties of the proxy's registries and mutexes (LockSpec).            *)
(***************************************************************************)
(* A step in which thread t goes to its registry: it takes the mutex, and  *)
(* the insert or the erase follows.                                        *)
Accesses(t) == calls[t].pc = "back" /\ calls'[t].pc = "locked"

Holds(thread) == { m \in DOMAIN mutexes : mutexes[m] = thread }

C32_LockCoversMapOperationOnly ==
    /\ \A t \in Threads :
           /\ calls[t].pc = "waiting" => Holds(t) = {}
           /\ Holds(t) # {}
                  => /\ calls[t].pc = "locked"
                     /\ Holds(t) = {MutexOf(calls[t].fn)}
    /\ Holds(DestructorThread) # {} => destructor = "locking"

(* One thread is inside the round trip of its call while the other holds   *)
(* the mutex of the registry they share.                                   *)
C32_LockedBesideRoundTrip ==
    \E t, u \in Threads :
        /\ calls[t].pc = "waiting"
        /\ calls[u].pc = "locked"
        /\ MutexOf(calls[t].fn) = MutexOf(calls[u].fn)
        /\ Holds(u) = {MutexOf(calls[u].fn)}

(***************************************************************************)
(* Properties of the transport's threads (LifeSpec).                       *)
(***************************************************************************)
(* C33: at no time do two threads run workerThread, however the start()    *)
(* and stop() calls of the application's threads fall between each other.  *)
C33_OneWorkerAtMost == workers <= 1

(* C36: no thread calls through socket_ after stop() has released it:      *)
(* neither a sendMessage that passed its test of connected_ before stop()  *)
(* released the socket, nor a worker that start() started after stop().    *)
C36_ReleasedSocketUnused == fault # "null_socket"

(***************************************************************************)
(* Properties of the choice to compress (CompressSpec).                    *)
(***************************************************************************)
(* The bytes sent within the last second: the throughput estimate. *)
Throughput ==
    SumBytes(SelectSeq(network_speed_history_,
                       LAMBDA m : m.at >= now - SpeedWindowMs))

(* The codec makes the payload shorter. *)
Shrinks(payload) ==
    /\ compressData(compression_type_, payload, payload.bytes).size > 0
    /\ compressData(compression_type_, payload, payload.bytes).size
           < payload.bytes

(* A sendMessage that got past its tests of connected_ and of the size. *)
Sends ==
    /\ last_op'.name = "sendMessage"
    /\ last_op' # last_op
    /\ connected_
    /\ last_op'.arg.size <= MAX_MESSAGE_SIZE

(* C34: sendMessage goes for compression of a payload of n bytes exactly   *)
(* when n > 1024 and, with adaptive compression on, the throughput         *)
(* estimate is below 10 * n: a payload the codec shortens goes out         *)
(* compressed in exactly these cases, and a payload of 1024 bytes or fewer *)
(* never does.                                                             *)
C34_CompressionGate ==
    [][ Sends
          => /\ Shrinks(last_op'.arg.payload)
                 => ( compression_stats_'.messages_compressed
                          = compression_stats_.messages_compressed + 1
                      <=> /\ last_op'.arg.payload.bytes > 1024
                          /\ adaptive_compression_
                               => Throughput < 10 * last_op'.arg.payload.bytes )
             /\ last_op'.arg.payload.bytes <= 1024
                 => compression_stats_' = compression_stats_ ]_vars

(* With adaptive compression on, a payload above the threshold that the    *)
(* codec would shorten went out as it was, after the 10272 bytes sent in   *)
(* the same second.                                                        *)
C34_HeldBackByThroughput ==
    /\ last_op.name = "sendMessage"
    /\ last_op.ret
    /\ adaptive_compression_
    /\ last_op.arg.payload.bytes > CompressionThreshold
    /\ last_op.arg.payload.plain.entropy = "low"
    /\ last_op.tx[1].compression = "NONE"
    /\ Len(network_speed_history_) = 2
    /\ compression_stats_ = NoStats

(* C35: with no codec pinned (compression_type_ NONE), a payload that goes *)
(* out compressed was compressed with ZLIB when it is shorter than 1 MiB   *)
(* and with LZ4 when it is 1 MiB or longer.                                *)
C35_CodecBySize ==
    [][ ( /\ Sends
          /\ compression_type_ = "NONE"
          /\ last_op'.tx # << >>
          /\ last_op'.tx[1].payload.codec # "NONE" )
            => last_op'.tx[1].payload.codec
                   = IF last_op'.arg.payload.bytes < 1024 * 1024
                       THEN "ZLIB" ELSE "LZ4" ]_vars

(***************************************************************************)
(* Further properties of the transport (Spec).                             *)
(***************************************************************************)
(* C37: a message callback that calls sendMessage never deadlocks, not     *)
(* when its send fails and reports the error either: no thread asks for    *)
(* callback_mutex_ while it holds it, so the worker never hangs on it.     *)
C37_CallbackMaySend == ~worker_hung

(***************************************************************************)
(* Further properties of the socket (SocketSpec).                          *)
(***************************************************************************)
(* C38: on a connected client no application message of which is           *)
(* unanswered (here: none has been sent yet), a sendMessage of the         *)
(* application with a size within the limit returns true, whatever         *)
(* heartbeats the worker has sent on the socket.                           *)
C38_ClientSendSucceeds ==
    [][ ( /\ role_ = "CLIENT"
          /\ connected_
          /\ app_calls = 0
          /\ app_calls' = 1
          /\ last_op'.name = "sendMessage"
          /\ last_op'.arg.size <= MAX_MESSAGE_SIZE )
            => last_op'.ret ]_vars

(***************************************************************************)
(* Further properties of the heartbeat (Spec).                             *)
(***************************************************************************)
(* The errors of a heartbeat whose send fails at once: the transport is    *)
(* not connected, or the socket refuses the send.  (A send that times out  *)
(* takes longer than a heartbeat interval and is left out.)                *)
HeartbeatRefused(op) ==
    /\ op.name = "workerThread"
    /\ \E i \in 1..Len(op.errors) :
          op.errors[i] \in { "Cannot send message: not connected",
                             "Error sending message: zmq error" }

(* C39: the worker attempts at most one heartbeat per heartbeat interval   *)
(* and so reports at most one heartbeat error per interval: an iteration   *)
(* that follows, with no time between, one whose heartbeat was refused     *)
(* reports no heartbeat error of its own.                                  *)
C39_OneHeartbeatErrorPerInterval ==
    [][ (HeartbeatRefused(last_op) /\ now' = now)
            => ~HeartbeatRefused(last_op') ]_vars

(***************************************************************************)
(* Further properties of the frame capture (FrameLiveSpec).                *)
(***************************************************************************)
(* C40: destroying a FrameCapture always terminates: once the destructor   *)
(* has been entered (it is inside flush or at the join), it returns.       *)
C40_DestructionTerminates ==
    (capture.pc \in {"flushing", "joining"}) ~> (capture.pc = "destroyed")

=============================================================================
